---- MODULE Spec2Model ----
(***************************************************************************)
(* A model of qri-io/qfs: the in-memory content-addressed store (MemFS),   *)
(* its adder, the WriteWithHooks orchestrator, and the Mux lifecycle.      *)
(*                                                                         *)
(* Conventions.                                                            *)
(*  - A path string is the sequence of its "/"-separated segments, exactly *)
(*    what strings.Split(path, "/") returns: "/a/b.txt" is                 *)
(*    <<"", "a", "b.txt">>, "b.txt" is <<"b.txt">>, "" is <<"">>.          *)
(*  - File bytes are strings.                                              *)
(*  - hashBytes is a collision-free digest: the printable string           *)
(*    "Qm(" \o data \o ")".                                                *)
(***************************************************************************)
EXTENDS Integers, Sequences, FiniteSets, TLC

(***************************************************************************)
(* Bounds of the model.                                                    *)
(***************************************************************************)
\* the largest number of leaves of an input tree
MaxLeaves == 4

\* capacity of the adder's event channel: make(chan AddedFile, 9)
AdderOutCap == 9
\* capacity of addedCh: make(chan AddedFile, 1)
AddedChCap == 1

(***************************************************************************)
(* Names, in lexicographic order (the order of Go's string <).             *)
(***************************************************************************)
NameOrder ==
  <<"", ".", "/", "a", "a.txt", "b", "b.txt", "c", "c.txt", "d.txt", "e.txt", "f.txt",
    "file.txt", "nope", "sub", "x.txt">>

NameRank(n) == CHOOSE i \in 1..Len(NameOrder) : NameOrder[i] = n

\* nodes.Less: ns[i].name < ns[j].name
Less(n1, n2) == NameRank(n1) < NameRank(n2)

LeafNames == <<"b.txt", "c.txt", "d.txt", "e.txt", "f.txt">>
LeafData == <<"foo", "bar", "baz", "qux", "quux">>

MemFilestoreType == "mem"

NoFiles == [n \in {} |-> ""]

(***************************************************************************)
(* Errors.                                                                 *)
(***************************************************************************)
Err(kind) == [kind |-> kind, hook |-> <<>>, missed |-> <<>>]
Nil == Err("nil")
ErrNotFound == Err("path not found")
ErrNotDirectory == Err("not a directory")
ErrHook == Err("hook callback failed")
ErrRead == Err("error reading from file")
ErrDeleteNested == Err("can only delete entire hash, not individual paths")
\* context.Canceled, the value of ctx.Err() once the scope is cancelled
ErrCanceled == Err("context canceled")
\* fmt.Errorf("requirements for hook %q were never met. missing required paths: %s", ...)
ErrMissing(h, m) == [kind |-> "requirements never met", hook |-> h, missed |-> m]

(***************************************************************************)
(* Files of an input tree: Memfile, Memdir and hookFile.                   *)
(***************************************************************************)
Memfile(path, data, readErr) ==
  [kind |-> "file", path |-> path, data |-> data, readErr |-> readErr,
   req |-> <<>>, cb |-> "", children |-> <<>>]

Memdir(path, links) ==
  [kind |-> "dir", path |-> path, data |-> "", readErr |-> FALSE,
   req |-> <<>>, cb |-> "", children |-> links]

IsDirectory(f) == f.kind = "dir"

\* NewWriteHookFile panics on a directory and returns no file
NewWriteHookFile(file, cb, requiredPaths) ==
  IF IsDirectory(file)
  THEN [kind |-> "panic", path |-> file.path, data |-> "", readErr |-> FALSE,
        req |-> <<>>, cb |-> "", children |-> <<>>]
  ELSE [kind |-> "hook", path |-> file.path, data |-> file.data,
        readErr |-> file.readErr, req |-> requiredPaths, cb |-> cb,
        children |-> <<>>]

\* filepath.Base: "." for the empty path; otherwise the trailing slashes are
\* dropped and the element after the last slash is the base, "/" when
\* nothing but slashes was there
RECURSIVE TrimTrailingSlashes(_)
TrimTrailingSlashes(path) ==
  IF path # <<>> /\ path[Len(path)] = ""
  THEN TrimTrailingSlashes(SubSeq(path, 1, Len(path) - 1))
  ELSE path

Base(path) ==
  IF path = <<"">> THEN "."
  ELSE LET p == TrimTrailingSlashes(path)
       IN IF p = <<>> THEN "/" ELSE p[Len(p)]

\* Memfile.FileName, Memdir.FileName: filepath.Base(m.path); a hookFile
\* answers with the file it wraps
FileName(f) == Base(f.path)

\* Walk: the files of a tree in the order visit is called on them
RECURSIVE WalkList(_)
WalkList(f) ==
  IF IsDirectory(f)
  THEN LET RECURSIVE Kids(_)
           Kids(i) == IF i > Len(f.children) THEN <<>>
                      ELSE WalkList(f.children[i]) \o Kids(i + 1)
       IN Kids(1) \o <<f>>
  ELSE <<f>>

\* the error visit returns for the node at a position
ErrVisit(at) == [kind |-> "visit failed", hook |-> at, missed |-> <<>>]

\* visit(f) for the node at a position: the visit is recorded, and fails for
\* the positions in bad
Visit(at, bad) ==
  [visited |-> <<at>>, err |-> IF at \in bad THEN ErrVisit(at) ELSE Nil]

\* a walk that visits a directory before its links
RECURSIVE WalkPreOrder(_, _, _)
WalkPreOrder(f, at, bad) ==
  IF IsDirectory(f)
  THEN LET RECURSIVE Links(_, _)
           Links(i, seen) ==
             IF i > Len(f.children) THEN [visited |-> seen, err |-> Nil]
             ELSE LET r == WalkPreOrder(f.children[i], Append(at, i), bad)
                  IN IF r.err # Nil
                     THEN [visited |-> seen \o r.visited, err |-> r.err]
                     ELSE Links(i + 1, seen \o r.visited)
           v == Visit(at, bad)
       IN IF v.err # Nil THEN v ELSE Links(1, v.visited)
  ELSE Visit(at, bad)

\* Walk(root, visit): a node is named by its position, the indices of the
\* links that lead to it from the root. A directory walks its links in
\* NextFile order, returns the first error, and visits itself at EOF.
RECURSIVE Walk(_, _, _)
Walk(f, at, bad) ==
  IF IsDirectory(f)
  THEN LET RECURSIVE Links(_, _)
           Links(i, seen) ==
             IF i > Len(f.children)
             THEN LET v == Visit(at, bad)
                  IN [visited |-> seen \o v.visited, err |-> v.err]
             ELSE LET r == Walk(f.children[i], Append(at, i), bad)
                  IN IF r.err # Nil
                     THEN [visited |-> seen \o r.visited, err |-> r.err]
                     ELSE Links(i + 1, seen \o r.visited)
       IN Links(1, <<>>)
  ELSE Visit(at, bad)

(***************************************************************************)
(* Building a Memdir: NewMemdir, AddChildren, SetPath, ChildDir, MakeDirP. *)
(***************************************************************************)
\* the elements of filepath.Clean: empty elements and "." are dropped, ".."
\* removes the element before it, is dropped at the root, and is kept at the
\* start of a path that is not rooted
RECURSIVE CleanElems(_, _, _)
CleanElems(segs, out, rooted) ==
  IF segs = <<>> THEN out
  ELSE LET e == Head(segs)
       IN CASE e \in {"", "."} -> CleanElems(Tail(segs), out, rooted)
            [] e = ".." ->
                 IF out # <<>> /\ out[Len(out)] # ".."
                 THEN CleanElems(Tail(segs), SubSeq(out, 1, Len(out) - 1), rooted)
                 ELSE IF rooted THEN CleanElems(Tail(segs), out, rooted)
                 ELSE CleanElems(Tail(segs), Append(out, ".."), rooted)
            [] OTHER -> CleanElems(Tail(segs), Append(out, e), rooted)

\* filepath.Clean: "/" for a rooted path without elements, "." for an
\* unrooted one
Clean(path) ==
  LET rooted == Len(path) >= 2 /\ path[1] = ""
      out == CleanElems(path, <<>>, rooted)
  IN IF rooted THEN (IF out = <<>> THEN <<"", "">> ELSE <<"">> \o out)
     ELSE IF out = <<>> THEN <<".">> ELSE out

\* filepath.Join(dir, name): empty elements are ignored, the others are
\* joined with a slash and the result is cleaned; "" when both are empty.
\* A name is a base name: one element, or "/"
JoinPath(dir, name) ==
  LET elems == IF name = "/" THEN <<"", "">> ELSE <<name>>
  IN IF dir = <<"">> /\ name = "" THEN <<"">>
     ELSE IF dir = <<"">> THEN Clean(elems)
     ELSE IF name = "" THEN Clean(dir)
     ELSE Clean(dir \o elems)

\* f.(PathSetter): Memfile and Memdir have a SetPath method; a hookFile
\* embeds the File interface, which has none
IsPathSetter(f) == f.kind # "hook"

\* Memfile.SetPath and Memdir.SetPath: a directory passes the path on to
\* every link that is a PathSetter, joined with the link's current file name
RECURSIVE SetPath(_, _)
SetPath(f, path) ==
  IF IsDirectory(f)
  THEN [f EXCEPT !.path = path,
                 !.children = [i \in 1..Len(f.children) |->
                                 IF IsPathSetter(f.children[i])
                                 THEN SetPath(f.children[i],
                                              JoinPath(path, FileName(f.children[i])))
                                 ELSE f.children[i]]]
  ELSE [f EXCEPT !.path = path]

\* Memdir.ChildDir: the index of the first link that is a directory with
\* the given base name, 0 when there is none
ChildDir(m, dirname) ==
  LET hits == {i \in 1..Len(m.children) :
                 IsDirectory(m.children[i]) /\ FileName(m.children[i]) = dirname}
  IN IF hits = {} THEN 0
     ELSE CHOOSE i \in hits : \A j \in hits : i <= j

\* the dirs of MakeDirP: filepath.Split(f.FullPath()), then
\* strings.Split(dirpath[1:len(dirpath)-1], "/"): the directory part loses
\* its first character, whatever it is, and its closing slash; <<>> stands
\* for the two early returns on dirpath "" and "/"
MakeDirPDirs(path) ==
  CASE Len(path) = 1 -> <<>>
    [] Len(path) = 2 /\ path[1] = "" -> <<>>
    [] Len(path) >= 3 /\ path[1] = "" -> SubSeq(path, 2, Len(path) - 1)
    [] OTHER -> <<SubSeq(path[1], 2, Len(path[1]))>> \o SubSeq(path, 2, Len(path) - 1)

\* the loop of MakeDirP: every directory of dirs is found with ChildDir
\* (which answers the directory itself for "", "." and "/") or created;
\* dir is the directory after the loop, at the position below it of the
\* deepest directory
RECURSIVE MakeDirs(_, _)
MakeDirs(dir, dirs) ==
  IF dirs = <<>> THEN [dir |-> dir, at |-> <<>>]
  ELSE IF Head(dirs) \in {"", ".", "/"} THEN MakeDirs(dir, Tail(dirs))
  ELSE LET i == ChildDir(dir, Head(dirs))
       IN IF i > 0
          THEN LET r == MakeDirs(dir.children[i], Tail(dirs))
               IN [dir |-> [dir EXCEPT !.children[i] = r.dir], at |-> <<i>> \o r.at]
          ELSE LET r == MakeDirs(Memdir(JoinPath(dir.path, Head(dirs)), <<>>), Tail(dirs))
               IN [dir |-> [dir EXCEPT !.children = Append(@, r.dir)],
                   at |-> <<Len(dir.children) + 1>> \o r.at]

\* Memdir.MakeDirP: m with the directories of f's path present, and the
\* position below m of the directory it returns
MakeDirP(m, f) ==
  LET dirs == MakeDirPDirs(f.path)
  IN IF Len(dirs) <= 1 THEN [dir |-> m, at |-> <<>>] ELSE MakeDirs(m, dirs)

\* dir.links = append(dir.links, f) for the directory at a position below m
RECURSIVE AppendLink(_, _, _)
AppendLink(m, at, f) ==
  IF at = <<>> THEN [m EXCEPT !.children = Append(@, f)]
  ELSE [m EXCEPT !.children[Head(at)] = AppendLink(@, Tail(at), f)]

\* Memdir.AddChildren
RECURSIVE AddChildren(_, _)
AddChildren(m, fs) ==
  IF fs = <<>> THEN m
  ELSE LET f == IF IsPathSetter(Head(fs))
                THEN SetPath(Head(fs), JoinPath(m.path, FileName(Head(fs))))
                ELSE Head(fs)
           made == MakeDirP(m, f)
       IN AddChildren(AppendLink(made.dir, made.at, f), Tail(fs))

\* NewMemdir(path, links...)
NewMemdir(path, links) == AddChildren(Memdir(path, <<>>), links)

(***************************************************************************)
(* MemFS.                                                                  *)
(***************************************************************************)
\* hashBytes: sha256, multihash-wrapped, base58: an injective printable digest
hashBytes(data) == "Qm(" \o data \o ")"

\* fmt.Sprintf("/%s/%s", MemFilestoreType, hash)
MemPath(hash) == <<"", MemFilestoreType, hash>>

fsFile(name, path, data) ==
  [isDir |-> FALSE, name |-> name, path |-> path, data |-> data, files |-> NoFiles]

fsDir(path, files) ==
  [isDir |-> TRUE, name |-> "", path |-> path, data |-> "", files |-> files]

\* strings.TrimPrefix(key, "/mem/") followed by strings.Split(key, "/")
TrimMemPrefix(key) ==
  IF Len(key) >= 3 /\ key[1] = "" /\ key[2] = MemFilestoreType
  THEN SubSeq(key, 3, Len(key))
  ELSE key

\* strings.TrimPrefix(path, "/")
TrimSlash(path) ==
  IF Len(path) >= 2 /\ path[1] = "" THEN Tail(path) ELSE path

\* m.Files[hash] = entry
StorePut(files, hash, entry) ==
  [k \in DOMAIN files \cup {hash} |-> IF k = hash THEN entry ELSE files[k]]

\* delete(m.Files, hash)
StoreDelete(files, hash) ==
  [k \in DOMAIN files \ {hash} |-> files[k]]

\* MemFS.ObjectCount
ObjectCount(files) == Cardinality(DOMAIN files)

\* MemFS.getLocal: the entry a key resolves to, or an error
RECURSIVE Descend(_, _, _)
Descend(files, f, parts) ==
  IF Len(parts) = 0 THEN [err |-> Nil, entry |-> f]
  ELSE IF ~f.isDir THEN [err |-> ErrNotDirectory, entry |-> f]
  ELSE LET hash == IF parts[1] \in DOMAIN f.files THEN f.files[parts[1]] ELSE ""
       IN IF hash \notin DOMAIN files
          THEN [err |-> ErrNotFound, entry |-> f]
          ELSE Descend(files, files[hash], Tail(parts))

getLocal(files, key) ==
  LET parts == TrimMemPrefix(key)
  IN IF parts[1] \notin DOMAIN files
     THEN [err |-> ErrNotFound, entry |-> fsFile("", <<"">>, "")]
     ELSE Descend(files, files[parts[1]], Tail(parts))

\* m.walkRm: the entry and, below a directory, every entry its links name
RECURSIVE walkRm(_, _)
walkRm(files, hash) ==
  IF hash \notin DOMAIN files THEN files
  ELSE LET f == files[hash]
           RECURSIVE Below(_, _)
           Below(fs, names) ==
             IF names = {} THEN fs
             ELSE LET n == CHOOSE x \in names : TRUE
                  IN Below(walkRm(fs, f.files[n]), names \ {n})
       IN StoreDelete(IF f.isDir THEN Below(StoreDelete(files, hash), DOMAIN f.files)
                      ELSE files, hash)

\* a Delete that ends with "return m.walkRm(parts[0])"
DeleteWalkRm(files, key) ==
  LET parts == TrimMemPrefix(key)
  IN IF Len(parts) > 1
     THEN [err |-> ErrDeleteNested, files |-> files]
     ELSE [err |-> Nil, files |-> walkRm(files, parts[1])]

\* a Delete that removes the head entry of a nested path before it refuses
DeleteHeadFirst(files, key) ==
  LET parts == TrimMemPrefix(key)
  IN [err |-> IF Len(parts) > 1 THEN ErrDeleteNested ELSE Nil,
      files |-> StoreDelete(files, parts[1])]

\* MemFS.Delete: the store after the call and the error returned
Delete(files, key) ==
  LET parts == TrimMemPrefix(key)
  IN IF Len(parts) > 1
     THEN [err |-> ErrDeleteNested, files |-> files]
     ELSE [err |-> Nil, files |-> StoreDelete(files, parts[1])]

\* a put that stores the entry without the bytes read
putFileEmptied(files, f) ==
  IF f.readErr
  THEN [err |-> ErrRead, hash |-> "", files |-> files]
  ELSE LET hash == hashBytes(f.data)
       IN [err |-> Nil, hash |-> hash,
           files |-> StorePut(files, hash, fsFile(FileName(f), f.path, ""))]

\* MemFS.put of a byte file: ReadAll, hash, store
putFile(files, f) ==
  IF f.readErr
  THEN [err |-> ErrRead, hash |-> "", files |-> files]
  ELSE LET hash == hashBytes(f.data)
       IN [err |-> Nil, hash |-> hash,
           files |-> StorePut(files, hash, fsFile(FileName(f), f.path, f.data))]

(***************************************************************************)
(* The adder's path tree: a function from a node's path below the root     *)
(* (the root is <<>>) to the node; children holds the child names in slice *)
(* order.                                                                  *)
(***************************************************************************)
newNode(name) == [name |-> name, hash |-> "", children |-> <<>>]

\* NewAdder: tree: newNode("")
NewTree == [p \in {<<>>} |-> newNode("")]

RECURSIVE EnsurePath(_, _, _)
EnsurePath(tree, parts, k) ==
  IF k > Len(parts) THEN tree
  ELSE LET here == SubSeq(parts, 1, k)
           parent == SubSeq(parts, 1, k - 1)
       IN IF here \in DOMAIN tree
          THEN EnsurePath(tree, parts, k + 1)
          ELSE EnsurePath(
                 [p \in DOMAIN tree \cup {here} |->
                    IF p = here THEN newNode(parts[k])
                    ELSE IF p = parent
                         THEN [tree[p] EXCEPT !.children = Append(@, parts[k])]
                         ELSE tree[p]],
                 parts, k + 1)

\* adder.addNode: the tree with the file's node (and its ancestors) present,
\* and the path of that node
addNode(tree, f) ==
  LET path == TrimSlash(TrimMemPrefix(f.path))
  IN IF path = <<"">>
     THEN [tree |-> tree, node |-> <<>>]
     ELSE [tree |-> EnsurePath(tree, path, 1), node |-> path]

\* sort.Sort(n.children): the names in ascending order
RECURSIVE Insert(_, _)
Insert(sorted, n) ==
  IF sorted = <<>> THEN <<n>>
  ELSE IF Less(n, Head(sorted)) THEN <<n>> \o sorted
  ELSE <<Head(sorted)>> \o Insert(Tail(sorted), n)

RECURSIVE SortNames(_)
SortNames(names) ==
  IF names = <<>> THEN <<>>
  ELSE Insert(SortNames(Tail(names)), Head(names))

RECURSIVE Manifest(_, _, _)
Manifest(tree, node, names) ==
  IF names = <<>> THEN ""
  ELSE tree[Append(node, Head(names))].hash \o "\n" \o Manifest(tree, node, Tail(names))

\* nd.toDir: sorts the children in place, maps each child's name to the hash
\* recorded in the child node, hashes the concatenated "<hash>\n" lines
toDir(tree, node) ==
  LET sorted == SortNames(tree[node].children)
      names == {sorted[i] : i \in 1..Len(sorted)}
  IN [hash |-> hashBytes(Manifest(tree, node, sorted)),
      dir |-> fsDir(<<tree[node].name>>,
                    [n \in names |-> tree[Append(node, n)].hash]),
      tree |-> [tree EXCEPT ![node].children = sorted]]

\* adder.AddFile: the store, the tree and the event sent on a.out
AddFile(files, tree, f) ==
  LET an == addNode(tree, f)
  IN IF IsDirectory(f)
     THEN LET td == toDir(an.tree, an.node)
          IN [err |-> Nil,
              files |-> StorePut(files, td.hash, td.dir),
              tree |-> [td.tree EXCEPT ![an.node].hash = td.hash],
              event |-> <<[Name |-> f.path, Path |-> MemPath(td.hash)]>>]
     ELSE LET r == putFile(files, f)
          IN IF r.err # Nil
             THEN [err |-> Err("error putting file in mapstore"),
                   files |-> files, tree |-> an.tree, event |-> <<>>]
             ELSE [err |-> Nil,
                   files |-> r.files,
                   tree |-> [an.tree EXCEPT ![an.node].hash = r.hash],
                   event |-> <<[Name |-> f.path, Path |-> MemPath(r.hash)]>>]

\* adder.Finalize: writes the root directory and returns its path
Finalize(files, tree) ==
  LET an == addNode(tree, Memdir(<<"", "">>, <<>>))
      td == toDir(an.tree, an.node)
  IN [files |-> StorePut(files, td.hash, td.dir),
      tree |-> [td.tree EXCEPT ![an.node].hash = td.hash],
      path |-> MemPath(td.hash)]

(***************************************************************************)
(* MemFS: Put of files and directories, PutFileAtKey, Get and Has.         *)
(***************************************************************************)
\* the error a child's put is wrapped in: "error putting file: ..."
ErrPutChild == Err("error putting file")

\* the store after a sequence of writes "m.Files[hash] = entry"
RECURSIVE StoreAll(_, _)
StoreAll(files, ws) ==
  IF ws = <<>> THEN files
  ELSE StoreAll(StorePut(files, Head(ws).hash, Head(ws).entry), Tail(ws))

\* MemFS.put, as the writes it makes to m.Files in the order it makes them
\* (each in a lock section of its own) and what it returns: a byte file is
\* stored under the digest of its bytes; a directory puts its links in
\* NextFile order, maps each link's file name to the link's digest, and is
\* stored under the digest of the "<hash>\n" lines.  On a failing link the
\* named result key holds the digest of the link before.
RECURSIVE putWrites(_)
putWrites(f) ==
  IF ~IsDirectory(f)
  THEN LET r == putFile(NoFiles, f)
       IN [err |-> r.err, hash |-> r.hash,
           writes |-> IF r.err # Nil THEN <<>>
                      ELSE <<[hash |-> r.hash, entry |-> r.files[r.hash]]>>]
  ELSE LET RECURSIVE Links(_, _, _, _, _)
           Links(i, ws, dirfiles, buf, key) ==
             IF i > Len(f.children)
             THEN LET dirhash == hashBytes(buf)
                  IN [err |-> Nil, hash |-> dirhash,
                      writes |-> Append(ws, [hash |-> dirhash,
                                             entry |-> fsDir(f.path, dirfiles)])]
             ELSE LET r == putWrites(f.children[i])
                      name == FileName(f.children[i])
                  IN IF r.err # Nil
                     THEN [err |-> ErrPutChild, hash |-> key, writes |-> ws \o r.writes]
                     ELSE Links(i + 1, ws \o r.writes,
                                [n \in DOMAIN dirfiles \cup {name} |->
                                   IF n = name THEN r.hash ELSE dirfiles[n]],
                                buf \o r.hash \o "\n", r.hash)
       IN Links(1, <<>>, NoFiles, "", "")

\* MemFS.put run from its first statement to its return
put(files, f) ==
  LET r == putWrites(f)
  IN [err |-> r.err, hash |-> r.hash, files |-> StoreAll(files, r.writes)]

\* MemFS.Put: the path "/mem/<key>" and the error
MemFSPut(files, f) ==
  LET r == put(files, f)
  IN [err |-> r.err, path |-> MemPath(r.hash), files |-> r.files]

\* MemFS.PutFileAtKey
PutFileAtKey(files, key, f) ==
  IF IsDirectory(f)
  THEN [err |-> Err("PutFileAtKey does not work with directories"), files |-> files]
  ELSE IF f.readErr THEN [err |-> ErrRead, files |-> files]
  ELSE [err |-> Nil,
        files |-> StorePut(files, key, fsFile(FileName(f), f.path, f.data))]

\* MemFS.putBlock: the bytes are stored under their CIDv0, the base58 of the
\* sha256 multihash, which is the string hashBytes gives; the entry has no path
putBlock(files, name, data) ==
  [err |-> Nil, hash |-> hashBytes(data),
   files |-> StorePut(files, hashBytes(data), fsFile(name, <<"">>, data))]

\* MemFS.PutBlock
PutBlock(files, data) == putBlock(files, "", data)

\* MemFS.PutFile: Stat, ReadAll, Close, then putBlock under the file's name
PutFile(files, f) ==
  IF f.readErr THEN [err |-> ErrRead, hash |-> "", files |-> files]
  ELSE putBlock(files, FileName(f), f.data)

\* MemFS.PutNode: a directory entry without path that maps each link's name
\* to its cid, stored under the digest of the "<cid>\n" lines in the order of
\* links.SortedSlice()
PutNode(files, links) ==
  LET SetToSeq(S) == CHOOSE q \in [1..Cardinality(S) -> S] :
                       \A i, j \in 1..Cardinality(S) : i # j => q[i] # q[j]
      sorted == SortNames(SetToSeq(DOMAIN links))
      RECURSIVE Lines(_)
      Lines(names) == IF names = <<>> THEN ""
                      ELSE links[Head(names)] \o "\n" \o Lines(Tail(names))
      hash == hashBytes(Lines(sorted))
  IN [err |-> Nil, hash |-> hash, files |-> StorePut(files, hash, fsDir(<<"">>, links))]

\* the orders in which "for fileName, hash := range f.files" can visit the
\* keys of the map: Go leaves the order open, every permutation can occur
RangeKeys(m) ==
  {q \in [1..Cardinality(DOMAIN m) -> DOMAIN m] :
     \A i, j \in 1..Cardinality(DOMAIN m) : i # j => q[i] # q[j]}

\* fsFile.File and fsDir.File, as the set of results the call can have: a
\* byte entry gives a Memfile of its path and bytes; a directory entry gives
\* NewMemdir of its path over the files of its entries in the order the range
\* visits them, each directory below with an order of its own, and fails
\* when an entry's hash is not in the store
RECURSIVE File(_, _)
File(files, e) ==
  IF ~e.isDir THEN {[err |-> Nil, file |-> Memfile(e.path, e.data, FALSE)]}
  ELSE LET RECURSIVE Entries(_, _, _)
           Entries(names, i, acc) ==
             IF i > Len(names) THEN {[err |-> Nil, file |-> NewMemdir(e.path, acc)]}
             ELSE IF e.files[names[i]] \notin DOMAIN files
                  THEN {[err |-> ErrNotFound, file |-> Memdir(e.path, <<>>)]}
             ELSE UNION {IF r.err # Nil THEN {r}
                         ELSE Entries(names, i + 1, Append(acc, r.file)) :
                         r \in File(files, files[e.files[names[i]]])}
       IN UNION {Entries(names, 1, <<>>) : names \in RangeKeys(e.files)}

\* MemFS.Get on a store without network peers: getLocal, then the entry's
\* File; the set of results the call can have
Get(files, key) ==
  LET r == getLocal(files, key)
  IN IF r.err # Nil
     THEN {[err |-> r.err, file |-> Memfile(<<"">>, "", FALSE)]}
     ELSE File(files, r.entry)

\* MemFS.Has: whether getLocal succeeds; the error is always nil
Has(files, key) ==
  [err |-> Nil, exists |-> \E r \in Get(files, key) : r.err = Nil]

(***************************************************************************)
(* Hook files.                                                             *)
(***************************************************************************)
\* a HasRequiredPaths that reports every hook as ready
HasRequiredPathsUnchecked(h, paths) == TRUE

\* hookFile.HasRequiredPaths
HasRequiredPaths(h, paths) ==
  \A i \in 1..Len(h.req) : h.req[i] \in DOMAIN paths

\* a report that names no path
MissedPathsUnnamed(h, paths) == <<>>

\* the paths the end-of-walk pass reports as missed
MissedPaths(h, paths) ==
  SelectSeq(h.req, LAMBDA p : p \notin DOMAIN paths)

\* the path rewriteB reads, whatever the hook requires
RewriteSource == <<"", "a", "d.txt">>

\* rewriteB's read: fs.Get(ctx, pathMap["/a/d.txt"]), the key being "" when
\* the map has no such entry, followed by ioutil.ReadAll
ReadRequired(files, paths) ==
  LET key == IF RewriteSource \in DOMAIN paths THEN paths[RewriteSource] ELSE <<"">>
      g == getLocal(files, key)
  IN IF g.err # Nil THEN [err |-> g.err, data |-> ""]
     ELSE IF g.entry.isDir THEN [err |-> Err("not a file"), data |-> ""]
     ELSE [err |-> Nil, data |-> g.entry.data]

\* the WriteHook callbacks: "fail" returns an error, "same" returns the file
\* itself as the reader, "rewrite" returns "APPLES" followed by the stored
\* bytes of /a/d.txt
callback(h, files, paths) ==
  CASE h.cb = "fail" -> [err |-> ErrHook, file |-> Memfile(h.path, "", FALSE)]
    [] h.cb = "same" -> [err |-> Nil, file |-> Memfile(h.path, h.data, h.readErr)]
    [] OTHER ->
         LET r == ReadRequired(files, paths)
         IN [err |-> r.err, file |-> Memfile(h.path, "APPLES" \o r.data, FALSE)]

\* a CallAndAdd without the once latch
CallAndAddUnlatched(h, once, files, paths) ==
  LET c == callback(h, files, paths)
  IN [err |-> c.err, called |-> TRUE,
      file |-> IF c.err # Nil THEN <<>> ELSE <<c.file>>]

\* hookFile.CallAndAdd up to its call of adder.AddFile: under the once latch,
\* call the callback; file is the NewMemfileReader(h.FullPath(), r) handed to
\* adder.AddFile when the callback returned a reader.  A latch already spent
\* returns nil
CallAndAdd(h, once, files, paths) ==
  IF h.path \in once
  THEN [err |-> Nil, called |-> FALSE, file |-> <<>>]
  ELSE LET c == callback(h, files, paths)
       IN [err |-> c.err, called |-> TRUE,
           file |-> IF c.err # Nil THEN <<>> ELSE <<c.file>>]

\* waitingHooks = append(waitingHooks[i:], waitingHooks[:i+1]...), i from 0
RotateWaiting(waiting, i) ==
  SubSeq(waiting, i + 1, Len(waiting)) \o SubSeq(waiting, 1, i + 1)

(***************************************************************************)
(* Input trees of a WriteWithHooks call: a directory /a of up to MaxLeaves *)
(* leaves.  The first two leaves may be hook-wrapped; the third may have a *)
(* reader that fails.                                                      *)
(***************************************************************************)
DirPath == <<"", "a">>
LeafPath(i) == <<"", "a", LeafNames[i]>>
\* a path no file of the tree has
MissingPath == <<"", "a", "x.txt">>

HookSlots == {1, 2}
BadReaderSlots == {3}
Callbacks == {"rewrite", "same", "fail"}

RequiredChoices(n) ==
  {<<>>, <<MissingPath>>, <<LeafPath(n), MissingPath>>}
    \cup {<<LeafPath(j)>> : j \in 1..n}

\* the files a caller hands to NewWriteHookFile for leaf i
Wrapped(i) ==
  {Memfile(LeafPath(i), LeafData[i], FALSE), Memdir(LeafPath(i), <<>>)}

\* the hook files the caller gets for leaf i: a call that panics builds none
HookChoices(i, n) ==
  {h \in {NewWriteHookFile(w, c, r) :
            w \in Wrapped(i), c \in Callbacks, r \in RequiredChoices(n)} :
     h.kind = "hook"}

LeafChoices(i, n) ==
  {Memfile(LeafPath(i), LeafData[i], FALSE)}
    \cup (IF i \in HookSlots THEN HookChoices(i, n) ELSE {})
    \cup (IF i \in BadReaderSlots
          THEN {Memfile(LeafPath(i), LeafData[i], TRUE)}
          ELSE {})

RECURSIVE LinkSeqs(_, _)
LinkSeqs(i, n) ==
  IF i > n THEN {<<>>}
  ELSE {<<c>> \o rest : c \in LeafChoices(i, n), rest \in LinkSeqs(i + 1, n)}

InputTrees ==
  UNION {{Memdir(DirPath, links) : links \in LinkSeqs(1, n)} : n \in 1..MaxLeaves}

\* the store before the call: empty, or already holding the bytes of d.txt
InitialStores ==
  {NoFiles, putFile(NoFiles, Memfile(<<"d.txt">>, LeafData[3], FALSE)).files}

(***************************************************************************)
(* muxfs.Mux: path kinds, configurations and the backends' constructors.   *)
(***************************************************************************)
MaxCfgs == 2

Muxes == {"A", "B"}

HTTPFilestoreType == "http"
IPFSFilestoreType == "ipfs"
LocalFilestoreType == "local"

\* the keys of the constructors map
KnownFSTypes ==
  {HTTPFilestoreType, IPFSFilestoreType, LocalFilestoreType, MemFilestoreType}

\* the Type fields a qfs.Config may carry; "map" has no constructor
CfgTypes == KnownFSTypes \cup {"map"}

\* the backends that implement qfs.ReleasingFilesystem
ReleasingTypes == {IPFSFilestoreType}

\* the backends that implement qfs.MerkleDagStore
MerkleDagTypes == {IPFSFilestoreType, MemFilestoreType}

ErrReadOnly == Err("read only")
errRepoLock == Err("repo locked")
ErrProbe == Err("lock probe failed")
ErrOpen == Err("opening repo failed")
ErrNode == Err("creating ipfs node failed")
ErrIO == Err("i/o error")
ErrUnrecognized == Err("unrecognized filesystem type")
ErrDuplicate == Err("mux already has filesystem")
noMuxerError == Err("cannot resolve paths of kind")

\* strings.HasPrefix(seg, prefix) for the path segments the model uses
SegHasPrefix(seg, prefix) ==
  CASE prefix = "ipfs" -> seg \in {"ipfs", "ipfs2"}
    [] prefix = "mem" -> seg \in {"mem", "memo"}
    [] prefix = "map" -> seg \in {"map"}
    [] OTHER -> FALSE

\* qfs.PathKind on a path split at "/"
PathKind(path) ==
  IF path = <<"">> THEN "none"
  ELSE IF Len(path) >= 3 /\ path[1] \in {"http:", "https:"} /\ path[2] = ""
  THEN "http"
  ELSE IF Len(path) >= 2 /\ path[1] = "" /\ SegHasPrefix(path[2], "ipfs")
  THEN "ipfs"
  ELSE IF Len(path) >= 2 /\ path[1] = "" /\ SegHasPrefix(path[2], "mem")
  THEN "mem"
  ELSE IF Len(path) >= 2 /\ path[1] = "" /\ SegHasPrefix(path[2], "map")
  THEN "map"
  ELSE "local"

\* the full paths of the files put through a Mux
PutPaths ==
  { <<"">>,
    <<"http:", "", "host", "hello.text">>,
    <<"https:", "", "host", "hello.text">>,
    <<"", "ipfs", "hello.text">>,
    <<"", "mem", "hello.text">>,
    <<"", "memo", "hello.text">>,
    <<"", "map", "hello.text">>,
    <<"", "tmp", "hello.text">>,
    <<"hello.text">> }

\* the cfgs slices passed to New
CfgSeqs == UNION {[1..n -> CfgTypes] : n \in 0..MaxCfgs}

\* what the go-ipfs calls made by qipfs.NewFilesystem do
ProbeOutcomes == {"ok", "probeErr"}
OpenOutcomes == {"ok", "openErr", "nodeErr"}

\* what a call that does I/O does
IOOutcomes == {"ok", "err"}

\* the Filestore a New turn builds and cannot register, because the mux m
\* already has one
Spare(m) == m \o "+"

\* every qipfs.Filestore built: the one a mux registers is named as the mux
Fsts == Muxes \cup {Spare(m) : m \in Muxes}

\* the mux whose scope a Filestore was built under
Scope(f) == CHOOSE m \in Muxes : f \in {m, Spare(m)}

\* qipfs.openRepo up to fsrepo.Open: the lock probe
ProbeRepo(lock, o) ==
  IF o = "probeErr" THEN ErrProbe
  ELSE IF lock # {} THEN errRepoLock
  ELSE Nil

\* fsrepo.Open in qipfs.openRepo for the Filestore f; it takes the repo lock.
\* Nothing is held between the probe and this call: when the lock was taken
\* in between, fsrepo.Open returns an error or hands out the repo again
openRepo(lock, f, o) ==
  IF o = "openErr" THEN [err |-> ErrOpen, lock |-> lock]
  ELSE [err |-> Nil, lock |-> lock \cup {f}]

\* handler.Put of the backend of type t: httpfs is read-only, MemFS stores
\* the bytes, localfs writes a file, qipfs adds to its node, whose datastore
\* refuses writes once the repo is closed
HandlerPut(t, path, repoIsClosed, o) ==
  CASE t = HTTPFilestoreType -> ErrReadOnly
    [] t = MemFilestoreType -> putFile(NoFiles, Memfile(path, "foo", FALSE)).err
    [] t = IPFSFilestoreType -> IF repoIsClosed \/ o = "err" THEN ErrIO ELSE Nil
    [] OTHER -> IF o = "err" THEN ErrIO ELSE Nil

\* Mux.Put: the error returned for a file at path
MuxPut(hs, path, repoIsClosed, o) ==
  LET kind == PathKind(path)
  IN IF \A i \in 1..Len(hs) : hs[i] # kind
     THEN noMuxerError
     ELSE HandlerPut(kind, path, repoIsClosed, o)

\* what a Get, Has or Delete meets at a backend: the path is there, the
\* path is not there, or the I/O fails
CallOutcomes == {"ok", "absent", "err"}

\* localfs.Delete is not implemented
ErrLocalDelete == Err("deleting local files via qfs.Localfs is not finished")

\* what the handler of type t answers to a call of a path.
\* Has: httpfs always answers false; MemFS answers whether getLocal
\* succeeds and never an error; localfs and qipfs answer true, false without
\* error for a path that is not there, or an error.
\* Delete: httpfs is read-only, MemFS refuses a key with child names and
\* succeeds otherwise, qipfs always returns nil, localfs always fails.
\* Get: the file, ErrNotFound, or for a backend that does I/O an error.
HandlerCall(t, op, path, repoIsClosed, o) ==
  CASE op = "Put" ->
         [err |-> HandlerPut(t, path, repoIsClosed, o), exists |-> FALSE]
    [] op = "Has" ->
         (CASE t = HTTPFilestoreType -> [err |-> Nil, exists |-> FALSE]
            [] t = MemFilestoreType -> [err |-> Nil, exists |-> o = "ok"]
            [] OTHER -> [err |-> IF o = "err" THEN ErrIO ELSE Nil, exists |-> o = "ok"])
    [] op = "Delete" ->
         (CASE t = HTTPFilestoreType -> [err |-> ErrReadOnly, exists |-> FALSE]
            [] t = MemFilestoreType -> [err |-> Delete(NoFiles, path).err, exists |-> FALSE]
            [] t = IPFSFilestoreType -> [err |-> Nil, exists |-> FALSE]
            [] OTHER -> [err |-> ErrLocalDelete, exists |-> FALSE])
    [] OTHER ->
         [err |-> CASE o = "ok" -> Nil
                    [] o = "absent" \/ t = MemFilestoreType -> ErrNotFound
                    [] OTHER -> ErrIO,
          exists |-> FALSE]

\* a lookup that falls back to the first handler registered
LookupFirst(hs, kind) ==
  IF \E i \in 1..Len(hs) : hs[i] = kind THEN <<kind>>
  ELSE IF hs # <<>> THEN <<hs[1]>> ELSE <<>>

\* handler, ok := m.handlers[kind]: the handler found, as a sequence
Lookup(hs, kind) ==
  IF \E i \in 1..Len(hs) : hs[i] = kind THEN <<kind>> ELSE <<>>

\* the result of a call no handler was called for
Unrouted(err) == [called |-> <<>>, err |-> err, exists |-> FALSE]

\* return handler.Op(ctx, path)
Forward(handler, op, path, repoIsClosed, o) ==
  LET r == HandlerCall(handler[1], op, path, repoIsClosed, o)
  IN [called |-> handler, err |-> r.err, exists |-> r.exists]

\* Mux.Has
MuxHas(hs, path, repoIsClosed, o) ==
  IF path = <<"">> THEN Unrouted(Nil)
  ELSE LET handler == Lookup(hs, PathKind(path))
       IN IF handler = <<>> THEN Unrouted(noMuxerError)
          ELSE Forward(handler, "Has", path, repoIsClosed, o)

\* Mux.Get
MuxGet(hs, path, repoIsClosed, o) ==
  IF path = <<"">> THEN Unrouted(ErrNotFound)
  ELSE LET handler == Lookup(hs, PathKind(path))
       IN IF handler = <<>> THEN Unrouted(noMuxerError)
          ELSE Forward(handler, "Get", path, repoIsClosed, o)

\* Mux.Put and Mux.Delete: no test for the empty path
MuxPutDelete(hs, op, path, repoIsClosed, o) ==
  LET handler == Lookup(hs, PathKind(path))
  IN IF handler = <<>> THEN Unrouted(noMuxerError)
     ELSE Forward(handler, op, path, repoIsClosed, o)

\* Mux.DefaultWriteFS: the type of the handler returned, "" for nil
DefaultWriteFS(hs, dwd) ==
  IF dwd # "" /\ Lookup(hs, dwd) # <<>> THEN dwd ELSE ""

(***************************************************************************)
(* State.                                                                  *)
(***************************************************************************)
VARIABLES
  root,             \* the input tree of the call
  Files,            \* MemFS.Files
  countBefore,      \* ObjectCount() immediately before the call
  tree,             \* adder.tree
  adderOut,         \* adder.out, the buffered event channel
  adderClosed,      \* close(a.out) has run
  addedCh,          \* addedCh
  merkelizedPaths,  \* merkelizedPaths
  waitingHooks,     \* waitingHooks
  finalPath,        \* finalPath
  once,             \* the hooks whose once latch is spent
  pcP,              \* the producer goroutine's position
  pos,              \* index in the walk of the file being visited
  snap,             \* the slice a range loop over waitingHooks iterates
  idx,              \* the index of that range loop, from 1
  perr,             \* the error the producer is about to send on doneCh
  pcK,              \* the consumer goroutine's position
  ao,               \* the event the consumer holds
  pcC,              \* the caller's position
  retErr,           \* the error WriteWithHooks returns
  retPath,          \* the path WriteWithHooks returns
  rbStart,          \* keys of merkelizedPaths when rollback began
  rbSeen,           \* keys rollback has visited
  rbFailed,         \* rollback Deletes that returned an error
  cancelled,        \* the scope passed to the call is cancelled
  crashed,          \* the runtime stopped the process (concurrent map access)
  calls,            \* per hook path: how often its callback ran
  attempts,         \* per hook path: how often CallAndAdd was called
  saw,              \* per hook path: merkelizedPaths as passed to the callback
  writes,           \* the files stored through the adder, in order
  pend,             \* the producer's call of adder.AddFile under way: its file and event
  unmetAtWalkEnd,   \* waiting hooks with an absent required path when Walk returned
  mpc,              \* per mux: the position of its New call
  pending,          \* per mux: the cfgs New has still to construct
  newErr,           \* per mux: the error New returned
  handedOver,       \* per mux: another mux's doneCh was closed when New opened the repo
  handlers,         \* per mux: the types of Mux.handlers, in registration order
  defaultWriteDestination,  \* per mux: Mux.defaultWriteDestination
  doneWg,           \* per mux: the counter of Mux.doneWg
  waiter,           \* per mux: the goroutine New starts to close Mux.doneCh
  watcher,          \* per mux: the goroutine SetFilesystem starts for the releaser
  muxDoneCh,        \* per mux: Mux.doneCh is closed
  muxDoneErr,       \* per mux: Mux.doneErr
  ctxDone,          \* per mux: the scope passed to New is cancelled
  bpc,              \* per Filestore: its release goroutine
  fstDoneErr,       \* per Filestore: Filestore.doneErr
  repoLock,         \* the Filestores that hold the lock of the repo path
  closeCalled,      \* per Filestore: cfg.Repo.Close() has been called
  repoClosed,       \* per Filestore: cfg.Repo.Close() has closed the repo
  probe,            \* per Filestore: the last result of the lock probe in the release loop
  cpc,              \* per Filestore: the position of the qipfs.NewFilesystem call that builds it
  ctorErr,          \* per Filestore: the error that call returned to New's loop
  lastPut,          \* the last Put through a Mux and its result
  lastCall,         \* the last Get, Has, Put or Delete through a Mux: the handlers called
  mFiles,           \* Files of the MemFS the store operations and adders work on
  mOp,              \* the last store operation: its arguments and what it returned
  mPut,             \* the last MemFS.Put, and whether the store was left alone since
  mHeld,            \* the paths Put returned that no Delete has been called on since
  mOps,             \* the number of store operations called
  sess,             \* per adder session: tree, events on out, files added, writes, root
  walked,           \* the last call of Walk: the tree, the failing visits, what it did
  filesLk,          \* MemFS.filesLk: the task that holds it, 0 when it is free
  task,             \* per task: the store operation it runs and the statement it is at
  relDone,          \* per releasing backend: its Done() channel is closed
  relErr,           \* per releasing backend: what its DoneErr() returns
  relWatcher,       \* per releasing backend: the goroutine SetFilesystem starts for it
  relWg,            \* the counter of doneWg of the Mux that tracks the backends
  relWaiter,        \* the goroutine New starts to close that Mux's doneCh
  relMuxDone,       \* that Mux's doneCh is closed
  relMuxErr         \* that Mux's doneErr

wwhVars ==
  <<root, Files, countBefore, tree, adderOut, adderClosed, addedCh,
    merkelizedPaths, waitingHooks, finalPath, once, pcP, pos, snap, idx, perr,
    pcK, ao, pcC, retErr, retPath, rbStart, rbSeen, rbFailed, cancelled, crashed,
    calls, attempts, saw, writes, pend, unmetAtWalkEnd>>

muxVars ==
  <<mpc, pending, newErr, handedOver, handlers, defaultWriteDestination, doneWg, waiter, watcher,
    muxDoneCh, muxDoneErr, ctxDone, bpc, fstDoneErr, repoLock, closeCalled,
    repoClosed, probe, cpc, ctorErr, lastPut, lastCall>>

memVars == <<mFiles, mOp, mPut, mHeld, mOps, sess, walked, filesLk, task>>

trackVars == <<relDone, relErr, relWatcher, relWg, relWaiter, relMuxDone, relMuxErr>>

vars == <<wwhVars, muxVars, memVars, trackVars>>

NoPaths == [p \in {} |-> <<>>]
NoEvent == [Name |-> <<>>, Path |-> <<>>]
\* no call of adder.AddFile is under way
NoPend == [file |-> Memfile(<<"">>, "", FALSE), event |-> <<>>]

Leaves == SelectSeq(WalkList(root), LAMBDA f : ~IsDirectory(f))
LeafSet == {Leaves[i] : i \in 1..Len(Leaves)}
Hooks == {f \in LeafSet : f.kind = "hook"}
HookPaths == {h.path : h \in Hooks}

(***************************************************************************)
(* WriteWithHooks up to the start of its goroutines.                       *)
(***************************************************************************)
CallInit(trees, stores) ==
  /\ root \in trees
  /\ Files \in stores
  /\ countBefore = ObjectCount(Files)
  /\ tree = NewTree
  /\ adderOut = <<>>
  /\ adderClosed = FALSE
  /\ addedCh = <<>>
  /\ merkelizedPaths = NoPaths
  /\ waitingHooks = <<>>
  /\ finalPath = <<"">>
  /\ once = {}
  /\ pcP = "walk"
  /\ pos = 1
  /\ snap = <<>>
  /\ idx = 1
  /\ perr = Nil
  /\ pcK = "recv"
  /\ ao = NoEvent
  /\ pcC = "wait"
  /\ retErr = Nil
  /\ retPath = <<"">>
  /\ rbStart = {}
  /\ rbSeen = {}
  /\ rbFailed = {}
  /\ cancelled = FALSE
  /\ crashed = FALSE
  /\ calls = [p \in HookPaths |-> 0]
  /\ attempts = [p \in HookPaths |-> 0]
  /\ saw = [p \in HookPaths |-> NoPaths]
  /\ writes = <<>>
  /\ pend = NoPend
  /\ unmetAtWalkEnd = {}

(***************************************************************************)
(* The producer goroutine: the walk, the end-of-walk pass, Finalize.       *)
(***************************************************************************)
callerVars == <<pcC, retErr, retPath, rbStart, rbSeen, rbFailed>>
consumerVars == <<pcK, ao, merkelizedPaths, addedCh>>
hookVars == <<once, calls, attempts, saw>>
storeVars == <<Files, tree, adderOut, writes, pend>>
fixedVars == <<root, countBefore, cancelled, crashed, unmetAtWalkEnd>>

\* adder.AddFile(f) up to its send, r being AddFile(Files, tree, f): addNode
\* makes the file's node, MemFS.put writes the store in a lock section of
\* its own, and node.hash is set.  The event waits for the send
ApplyAddFile(f, r) ==
  /\ Files' = r.files
  /\ tree' = r.tree
  /\ writes' = writes \o
       [i \in 1..Len(r.event) |->
          [path |-> r.event[i].Name,
           data |-> getLocal(r.files, r.event[i].Path).entry.data]]
  /\ pend' = [file |-> f, event |-> r.event]
  /\ UNCHANGED adderOut

\* the effect of a call of h.CallAndAdd up to adder.AddFile, r being what
\* CallAndAdd gave: the latch is spent, and the file made of the callback's
\* reader is about to be added
ApplyCallAndAdd(h, r) ==
  /\ once' = once \cup {h.path}
  /\ attempts' = [attempts EXCEPT ![h.path] = @ + 1]
  /\ calls' = IF r.called THEN [calls EXCEPT ![h.path] = @ + 1] ELSE calls
  /\ saw' = IF r.called THEN [saw EXCEPT ![h.path] = merkelizedPaths] ELSE saw
  /\ pend' = IF r.file = <<>> THEN pend
             ELSE [file |-> r.file[1], event |-> <<>>]
  /\ UNCHANGED <<Files, tree, adderOut, writes>>

\* err = <-doneCh in the caller, paired with a send on the unbuffered doneCh.
\* After a nil the caller returns finalPath, which the producer wrote before
\* it sent; after an error the caller goes on to "return finalPath, err"
\* while the producer runs on.
CallerReceives(e) ==
  /\ pcC = "wait"
  /\ retErr' = e
  /\ retPath' = IF e = Nil THEN finalPath ELSE retPath
  /\ pcC' = IF e = Nil THEN "returned" ELSE "read"
  /\ UNCHANGED <<rbStart, rbSeen, rbFailed>>

\* visit of a directory: return nil
VisitDirectory ==
  /\ ~crashed
  /\ pcP = "walk"
  /\ pos <= Len(WalkList(root))
  /\ IsDirectory(WalkList(root)[pos])
  /\ pos' = pos + 1
  /\ UNCHANGED <<pcP, snap, idx, perr, waitingHooks, finalPath, adderClosed>>
  /\ UNCHANGED <<callerVars, consumerVars, hookVars, storeVars, fixedVars>>
  /\ UNCHANGED <<muxVars, memVars, trackVars>>

\* visit of a leaf: start ranging over waitingHooks
VisitLeaf ==
  /\ ~crashed
  /\ pcP = "walk"
  /\ pos <= Len(WalkList(root))
  /\ ~IsDirectory(WalkList(root)[pos])
  /\ snap' = waitingHooks
  /\ idx' = 1
  /\ pcP' = "scan"
  /\ UNCHANGED <<pos, perr, waitingHooks, finalPath, adderClosed>>
  /\ UNCHANGED <<callerVars, consumerVars, hookVars, storeVars, fixedVars>>
  /\ UNCHANGED <<muxVars, memVars, trackVars>>

\* one iteration of "for i, whf := range waitingHooks" inside visit, up to
\* the callback of a hook that is ready
ScanWaitingHook ==
  /\ ~crashed
  /\ pcP = "scan"
  /\ idx <= Len(snap)
  /\ LET whf == snap[idx]
     IN IF HasRequiredPaths(whf, merkelizedPaths)
        THEN LET r == CallAndAdd(whf, once, Files, merkelizedPaths)
             IN /\ ApplyCallAndAdd(whf, r)
                /\ IF r.err # Nil
                   THEN /\ pcP' = "walkErr"
                        /\ perr' = r.err
                        /\ UNCHANGED waitingHooks
                   ELSE IF r.file # <<>>
                   THEN /\ pcP' = "scanPut"
                        /\ UNCHANGED <<perr, waitingHooks>>
                   ELSE /\ pcP' = "scanRecv"
                        /\ waitingHooks' = RotateWaiting(waitingHooks, idx - 1)
                        /\ UNCHANGED perr
                /\ UNCHANGED idx
        ELSE /\ idx' = idx + 1
             /\ UNCHANGED <<pcP, perr, waitingHooks, hookVars, storeVars>>
  /\ UNCHANGED <<pos, snap, finalPath, adderClosed>>
  /\ UNCHANGED <<callerVars, consumerVars, fixedVars>>
  /\ UNCHANGED <<muxVars, memVars, trackVars>>

\* adder.AddFile inside CallAndAdd, up to its send: the file made of the
\* callback's reader is put in the store
HookAddFile ==
  /\ ~crashed
  /\ pcP \in {"scanPut", "visitPut", "finalPut"}
  /\ LET r == AddFile(Files, tree, pend.file)
     IN /\ ApplyAddFile(pend.file, r)
        /\ IF r.err # Nil
           THEN /\ pcP' = IF pcP = "finalPut" THEN "finalErr" ELSE "walkErr"
                /\ perr' = r.err
           ELSE /\ pcP' = CASE pcP = "scanPut" -> "scanSend"
                            [] pcP = "visitPut" -> "visitSend"
                            [] OTHER -> "finalSend"
                /\ UNCHANGED perr
  /\ UNCHANGED <<pos, snap, idx, waitingHooks, finalPath, adderClosed>>
  /\ UNCHANGED <<callerVars, consumerVars, hookVars, fixedVars>>
  /\ UNCHANGED <<muxVars, memVars, trackVars>>

\* the end of adder.AddFile: "a.out <- AddedFile{...}", which waits while the
\* channel is full; then the caller of AddFile or of
\* CallAndAdd goes on to its next receive or, after the walk, its next hook
AdderSend ==
  /\ ~crashed
  /\ pcP \in {"scanSend", "visitSend", "finalSend"}
  /\ Len(adderOut) < AdderOutCap
  /\ adderOut' = adderOut \o pend.event
  /\ pend' = NoPend
  /\ CASE pcP = "scanSend" ->
            /\ pcP' = "scanRecv"
            /\ waitingHooks' = RotateWaiting(waitingHooks, idx - 1)
            /\ UNCHANGED idx
       [] pcP = "visitSend" ->
            /\ pcP' = "visitRecv"
            /\ UNCHANGED <<waitingHooks, idx>>
       [] OTHER ->
            /\ pcP' = "final"
            /\ waitingHooks' = RotateWaiting(waitingHooks, idx - 1)
            /\ idx' = idx + 1
  /\ UNCHANGED <<pos, snap, perr, finalPath, adderClosed, Files, tree, writes>>
  /\ UNCHANGED <<callerVars, consumerVars, hookVars, fixedVars>>
  /\ UNCHANGED <<muxVars, memVars, trackVars>>

\* "<-addedCh" after a waiting hook was called
ScanReceive ==
  /\ ~crashed
  /\ pcP = "scanRecv"
  /\ Len(addedCh) > 0
  /\ addedCh' = Tail(addedCh)
  /\ idx' = idx + 1
  /\ pcP' = "scan"
  /\ UNCHANGED <<pos, snap, perr, waitingHooks, finalPath, adderClosed>>
  /\ UNCHANGED <<callerVars, pcK, ao, merkelizedPaths, hookVars, storeVars, fixedVars>>
  /\ UNCHANGED <<muxVars, memVars, trackVars>>

\* the visited file is a hook: call its callback now or put it on the wait
\* list
VisitHook ==
  /\ ~crashed
  /\ pcP = "scan"
  /\ idx > Len(snap)
  /\ WalkList(root)[pos].kind = "hook"
  /\ LET whf == WalkList(root)[pos]
     IN IF HasRequiredPaths(whf, merkelizedPaths)
        THEN LET r == CallAndAdd(whf, once, Files, merkelizedPaths)
             IN /\ ApplyCallAndAdd(whf, r)
                /\ pcP' = IF r.err # Nil THEN "walkErr"
                          ELSE IF r.file # <<>> THEN "visitPut"
                          ELSE "visitRecv"
                /\ perr' = r.err
                /\ UNCHANGED <<pos, waitingHooks>>
        ELSE /\ waitingHooks' = Append(waitingHooks, whf)
             /\ pos' = pos + 1
             /\ pcP' = "walk"
             /\ UNCHANGED <<perr, hookVars, storeVars>>
  /\ UNCHANGED <<snap, idx, finalPath, adderClosed>>
  /\ UNCHANGED <<callerVars, consumerVars, fixedVars>>
  /\ UNCHANGED <<muxVars, memVars, trackVars>>

\* the visited file is a plain file: adder.AddFile up to its send
VisitFile ==
  /\ ~crashed
  /\ pcP = "scan"
  /\ idx > Len(snap)
  /\ WalkList(root)[pos].kind = "file"
  /\ LET r == AddFile(Files, tree, WalkList(root)[pos])
     IN /\ ApplyAddFile(WalkList(root)[pos], r)
        /\ pcP' = IF r.err # Nil THEN "walkErr" ELSE "visitSend"
        /\ perr' = r.err
  /\ UNCHANGED <<pos, snap, idx, waitingHooks, finalPath, adderClosed>>
  /\ UNCHANGED <<callerVars, consumerVars, hookVars, fixedVars>>
  /\ UNCHANGED <<muxVars, memVars, trackVars>>

\* "<-addedCh" after the visited file was added
VisitReceive ==
  /\ ~crashed
  /\ pcP = "visitRecv"
  /\ Len(addedCh) > 0
  /\ addedCh' = Tail(addedCh)
  /\ pos' = pos + 1
  /\ pcP' = "walk"
  /\ UNCHANGED <<snap, idx, perr, waitingHooks, finalPath, adderClosed>>
  /\ UNCHANGED <<callerVars, pcK, ao, merkelizedPaths, hookVars, storeVars, fixedVars>>
  /\ UNCHANGED <<muxVars, memVars, trackVars>>

\* Walk returned nil: go on to the pass over the hooks still waiting
WalkReturns ==
  /\ ~crashed
  /\ pcP = "walk"
  /\ pos > Len(WalkList(root))
  /\ snap' = waitingHooks
  /\ idx' = 1
  /\ pcP' = "final"
  /\ unmetAtWalkEnd' =
       {[hook |-> waitingHooks[i].path,
         missed |-> MissedPaths(waitingHooks[i], merkelizedPaths)] :
          i \in {j \in 1..Len(waitingHooks) :
                   ~HasRequiredPaths(waitingHooks[j], merkelizedPaths)}}
  /\ UNCHANGED <<pos, perr, waitingHooks, finalPath, adderClosed>>
  /\ UNCHANGED <<root, countBefore, cancelled, crashed>>
  /\ UNCHANGED <<callerVars, consumerVars, hookVars, storeVars>>
  /\ UNCHANGED <<muxVars, memVars, trackVars>>

\* Walk returned an error: "doneCh <- err", and no return after it
SendWalkError ==
  /\ ~crashed
  /\ pcP = "walkErr"
  /\ CallerReceives(perr)
  /\ snap' = waitingHooks
  /\ idx' = 1
  /\ pcP' = "final"
  /\ UNCHANGED <<pos, perr, waitingHooks, finalPath, adderClosed>>
  /\ UNCHANGED <<consumerVars, hookVars, storeVars, fixedVars>>
  /\ UNCHANGED <<muxVars, memVars, trackVars>>

\* one iteration of "for i, hook := range waitingHooks" after the walk, up to
\* the callback of a hook that is ready
FinalHook ==
  /\ ~crashed
  /\ pcP = "final"
  /\ idx <= Len(snap)
  /\ LET hook == snap[idx]
     IN IF ~HasRequiredPaths(hook, merkelizedPaths)
        THEN /\ pcP' = "missed"
             /\ UNCHANGED <<idx, perr, waitingHooks, hookVars, storeVars>>
        ELSE LET r == CallAndAdd(hook, once, Files, merkelizedPaths)
             IN /\ ApplyCallAndAdd(hook, r)
                /\ IF r.err # Nil
                   THEN /\ pcP' = "finalErr"
                        /\ perr' = r.err
                        /\ UNCHANGED <<idx, waitingHooks>>
                   ELSE IF r.file # <<>>
                   THEN /\ pcP' = "finalPut"
                        /\ UNCHANGED <<idx, perr, waitingHooks>>
                   ELSE /\ waitingHooks' = RotateWaiting(waitingHooks, idx - 1)
                        /\ idx' = idx + 1
                        /\ UNCHANGED <<pcP, perr>>
  /\ UNCHANGED <<pos, snap, finalPath, adderClosed>>
  /\ UNCHANGED <<callerVars, consumerVars, fixedVars>>
  /\ UNCHANGED <<muxVars, memVars, trackVars>>

\* the hook's requirements were not met: collect the paths still absent
CollectMissed ==
  /\ ~crashed
  /\ pcP = "missed"
  /\ perr' = ErrMissing(snap[idx].path, MissedPaths(snap[idx], merkelizedPaths))
  /\ pcP' = "missedSend"
  /\ UNCHANGED <<pos, snap, idx, waitingHooks, finalPath, adderClosed>>
  /\ UNCHANGED <<callerVars, consumerVars, hookVars, storeVars, fixedVars>>
  /\ UNCHANGED <<muxVars, memVars, trackVars>>

\* "doneCh <- fmt.Errorf(requirements ... never met)" and return
SendMissed ==
  /\ ~crashed
  /\ pcP = "missedSend"
  /\ CallerReceives(perr)
  /\ pcP' = "exit"
  /\ UNCHANGED <<pos, snap, idx, perr, waitingHooks, finalPath, adderClosed>>
  /\ UNCHANGED <<consumerVars, hookVars, storeVars, fixedVars>>
  /\ UNCHANGED <<muxVars, memVars, trackVars>>

\* "doneCh <- err" after a failed CallAndAdd of the pass, then the loop goes on
SendFinalError ==
  /\ ~crashed
  /\ pcP = "finalErr"
  /\ CallerReceives(perr)
  /\ waitingHooks' = RotateWaiting(waitingHooks, idx - 1)
  /\ idx' = idx + 1
  /\ pcP' = "final"
  /\ UNCHANGED <<pos, snap, perr, finalPath, adderClosed>>
  /\ UNCHANGED <<consumerVars, hookVars, storeVars, fixedVars>>
  /\ UNCHANGED <<muxVars, memVars, trackVars>>

\* adder.Finalize is called: close(a.out)
CallFinalize ==
  /\ ~crashed
  /\ pcP = "final"
  /\ idx > Len(snap)
  /\ adderClosed' = TRUE
  /\ pcP' = "finalizeRoot"
  /\ UNCHANGED <<pos, snap, idx, perr, waitingHooks, finalPath>>
  /\ UNCHANGED <<callerVars, consumerVars, hookVars, storeVars, fixedVars>>
  /\ UNCHANGED <<muxVars, memVars, trackVars>>

\* adder.Finalize: the root directory is written in a lock section
FinalizeRoot ==
  /\ ~crashed
  /\ pcP = "finalizeRoot"
  /\ LET r == Finalize(Files, tree)
     IN /\ Files' = r.files
        /\ tree' = r.tree
  /\ pcP' = "finalizeRet"
  /\ UNCHANGED <<pos, snap, idx, perr, waitingHooks, finalPath, adderClosed>>
  /\ UNCHANGED <<adderOut, writes, pend>>
  /\ UNCHANGED <<callerVars, consumerVars, hookVars, fixedVars>>
  /\ UNCHANGED <<muxVars, memVars, trackVars>>

\* adder.Finalize returns the root's path: "finalPath, err = ..."
FinalizeReturn ==
  /\ ~crashed
  /\ pcP = "finalizeRet"
  /\ finalPath' = MemPath(tree[<<>>].hash)
  /\ pcP' = "sendNil"
  /\ UNCHANGED <<pos, snap, idx, perr, waitingHooks, adderClosed>>
  /\ UNCHANGED <<callerVars, consumerVars, hookVars, storeVars, fixedVars>>
  /\ UNCHANGED <<muxVars, memVars, trackVars>>

\* "doneCh <- nil"
SendNil ==
  /\ ~crashed
  /\ pcP = "sendNil"
  /\ CallerReceives(Nil)
  /\ pcP' = "exit"
  /\ UNCHANGED <<pos, snap, idx, perr, waitingHooks, finalPath, adderClosed>>
  /\ UNCHANGED <<consumerVars, hookVars, storeVars, fixedVars>>
  /\ UNCHANGED <<muxVars, memVars, trackVars>>

(***************************************************************************)
(* The consumer goroutine: "for ao := range adder.Added()".                *)
(***************************************************************************)
producerVars == <<pcP, pos, snap, idx, perr, waitingHooks, finalPath, adderClosed>>

ConsumerReceive ==
  /\ ~crashed
  /\ pcK = "recv"
  /\ adderOut # <<>>
  /\ ao' = Head(adderOut)
  /\ adderOut' = Tail(adderOut)
  /\ pcK' = "record"
  /\ UNCHANGED <<merkelizedPaths, addedCh, Files, tree, writes, pend>>
  /\ UNCHANGED <<producerVars, callerVars, hookVars, fixedVars>>
  /\ UNCHANGED <<muxVars, memVars, trackVars>>

\* merkelizedPaths[ao.Name] = ao.Path
ConsumerRecord ==
  /\ ~crashed
  /\ pcK = "record"
  /\ merkelizedPaths' =
       [p \in DOMAIN merkelizedPaths \cup {ao.Name} |->
          IF p = ao.Name THEN ao.Path ELSE merkelizedPaths[p]]
  /\ pcK' = "send"
  /\ UNCHANGED <<ao, addedCh>>
  /\ UNCHANGED <<producerVars, callerVars, hookVars, storeVars, fixedVars>>
  /\ UNCHANGED <<muxVars, memVars, trackVars>>

\* addedCh <- ao
ConsumerSend ==
  /\ ~crashed
  /\ pcK = "send"
  /\ Len(addedCh) < AddedChCap
  /\ addedCh' = Append(addedCh, ao)
  /\ pcK' = "recv"
  /\ UNCHANGED <<ao, merkelizedPaths>>
  /\ UNCHANGED <<producerVars, callerVars, hookVars, storeVars, fixedVars>>
  /\ UNCHANGED <<muxVars, memVars, trackVars>>

\* the range loop ends when adder.out is closed and drained
ConsumerExit ==
  /\ ~crashed
  /\ pcK = "recv"
  /\ adderOut = <<>>
  /\ adderClosed
  /\ pcK' = "exit"
  /\ UNCHANGED <<ao, merkelizedPaths, addedCh>>
  /\ UNCHANGED <<producerVars, callerVars, hookVars, storeVars, fixedVars>>
  /\ UNCHANGED <<muxVars, memVars, trackVars>>

(***************************************************************************)
(* The caller: the deferred rollback and the return.                       *)
(***************************************************************************)
\* what fs.Delete returns to the rollback loop: MemFS.Delete's own result, or
\* the error of a Filesystem whose Delete fails and removes nothing
DeleteOutcomes == {"ok", "error"}

\* a rollback loop that gives up at the first Delete error and returns it
RollbackStepAborts(o) ==
  /\ ~crashed
  /\ pcC = "rollback"
  /\ \E k \in DOMAIN merkelizedPaths \ rbSeen :
       LET d == IF o = "error" THEN [err |-> ErrIO, files |-> Files]
                ELSE Delete(Files, merkelizedPaths[k])
       IN /\ Files' = d.files
          /\ rbSeen' = rbSeen \cup {k}
          /\ rbFailed' = IF d.err # Nil THEN rbFailed \cup {k} ELSE rbFailed
          /\ pcC' = IF d.err # Nil THEN "returned" ELSE pcC
          /\ retErr' = IF d.err # Nil THEN d.err ELSE retErr
  /\ UNCHANGED <<retPath, rbStart, tree, adderOut, writes, pend>>
  /\ UNCHANGED <<producerVars, consumerVars, hookVars, fixedVars>>
  /\ UNCHANGED <<muxVars, memVars, trackVars>>

\* one iteration of "for _, path := range merkelizedPaths { fs.Delete(ctx, path) }":
\* an error of Delete is logged and the loop goes on.  Entries the consumer
\* adds while the loop runs may or may not be visited.
RollbackStep(o) ==
  /\ ~crashed
  /\ pcC = "rollback"
  /\ \E k \in DOMAIN merkelizedPaths \ rbSeen :
       LET d == IF o = "error" THEN [err |-> ErrIO, files |-> Files]
                ELSE Delete(Files, merkelizedPaths[k])
       IN /\ Files' = d.files
          /\ rbSeen' = rbSeen \cup {k}
          /\ rbFailed' = IF d.err # Nil THEN rbFailed \cup {k} ELSE rbFailed
  /\ UNCHANGED <<pcC, retErr, retPath, rbStart, tree, adderOut, writes, pend>>
  /\ UNCHANGED <<producerVars, consumerVars, hookVars, fixedVars>>
  /\ UNCHANGED <<muxVars, memVars, trackVars>>

\* the rollback loop on a MemFS
RollbackDelete == RollbackStep("ok")

\* "return finalPath, err": the caller reads finalPath, not ordered with the
\* producer's write of it after Finalize, and the deferred rollback begins
CallerReadsFinalPath ==
  /\ ~crashed
  /\ pcC = "read"
  /\ retPath' = finalPath
  /\ rbStart' = DOMAIN merkelizedPaths
  /\ pcC' = "rollback"
  /\ UNCHANGED <<retErr, rbSeen, rbFailed>>
  /\ UNCHANGED <<producerVars, consumerVars, hookVars, storeVars, fixedVars>>
  /\ UNCHANGED <<muxVars, memVars, trackVars>>

\* rollback is over: WriteWithHooks returns the path it read and the error
RollbackReturn ==
  /\ ~crashed
  /\ pcC = "rollback"
  /\ rbStart \subseteq rbSeen
  /\ pcC' = "returned"
  /\ UNCHANGED <<retErr, retPath, rbStart, rbSeen, rbFailed>>
  /\ UNCHANGED <<producerVars, consumerVars, hookVars, storeVars, fixedVars>>
  /\ UNCHANGED <<muxVars, memVars, trackVars>>

\* the scope passed to WriteWithHooks is cancelled while the call runs; no
\* statement of WriteWithHooks, of MemFS or of its adder reads ctx
Cancel ==
  /\ ~crashed
  /\ pcC \in {"wait", "read", "rollback"}
  /\ ~cancelled
  /\ cancelled' = TRUE
  /\ UNCHANGED <<root, countBefore, crashed, unmetAtWalkEnd>>
  /\ UNCHANGED <<producerVars, consumerVars, callerVars, hookVars, storeVars>>
  /\ UNCHANGED <<muxVars, memVars, trackVars>>

\* the next statement of the producer reads merkelizedPaths
ProducerReadsPaths ==
  \/ pcP = "scan" /\ (idx <= Len(snap) \/ WalkList(root)[pos].kind = "hook")
  \/ pcP = "final" /\ idx <= Len(snap)
  \/ pcP = "missed"

\* The consumer's map write is not ordered with a read of the map by the
\* producer or by the rollback loop: the Go runtime may stop the process with
\* "fatal error: concurrent map read and map write"
ConcurrentMapFault ==
  /\ ~crashed
  /\ pcK = "record"
  /\ ProducerReadsPaths \/ pcC = "rollback"
  /\ crashed' = TRUE
  /\ UNCHANGED <<root, countBefore, cancelled, unmetAtWalkEnd>>
  /\ UNCHANGED <<producerVars, consumerVars, callerVars, hookVars, storeVars>>
  /\ UNCHANGED <<muxVars, memVars, trackVars>>


(***************************************************************************)
(* muxfs.Mux: New, SetFilesystem, Put, and the goroutines that release a   *)
(* mux and its qipfs backend when the scope passed to New is cancelled.    *)
(***************************************************************************)
NoCall ==
  [mux |-> "", op |-> "", path |-> <<>>, handlers |-> <<>>, called |-> <<>>,
   err |-> Nil, exists |-> FALSE]

NoPut == [mux |-> "", kind |-> "", err |-> Nil, done |-> FALSE]

MuxIdle ==
  /\ mpc = [m \in Muxes |-> "unborn"]
  /\ pending = [m \in Muxes |-> <<>>]
  /\ newErr = [m \in Muxes |-> Nil]
  /\ handedOver = [m \in Muxes |-> FALSE]
  /\ handlers = [m \in Muxes |-> <<>>]
  /\ defaultWriteDestination = [m \in Muxes |-> ""]
  /\ doneWg = [m \in Muxes |-> 0]
  /\ waiter = [m \in Muxes |-> "none"]
  /\ watcher = [m \in Muxes |-> "none"]
  /\ muxDoneCh = [m \in Muxes |-> FALSE]
  /\ muxDoneErr = [m \in Muxes |-> Nil]
  /\ ctxDone = [m \in Muxes |-> FALSE]
  /\ bpc = [f \in Fsts |-> "none"]
  /\ fstDoneErr = [f \in Fsts |-> Nil]
  /\ repoLock = {}
  /\ closeCalled = [f \in Fsts |-> FALSE]
  /\ repoClosed = [f \in Fsts |-> FALSE]
  /\ probe = [f \in Fsts |-> "none"]
  /\ cpc = [f \in Fsts |-> "none"]
  /\ ctorErr = [f \in Fsts |-> Nil]
  /\ lastPut = NoPut
  /\ lastCall = NoCall

HandlerTypes(m) == {handlers[m][i] : i \in 1..Len(handlers[m])}

\* Filestore.Done() of the mux's qipfs backend is closed
FstDone(m) == bpc[m] = "done"

newVars == <<mpc, pending, newErr, handedOver>>
registryVars == <<handlers, defaultWriteDestination>>
releaseVars == <<waiter, muxDoneCh, muxDoneErr>>
backendVars == <<fstDoneErr, closeCalled, repoClosed, probe, cpc, ctorErr>>

\* the Filestore the next constructor call under the scope of m builds: a
\* new one at every call
NextFst(m) ==
  IF cpc[m] = "none" /\ bpc[m] = "none" /\ m \notin repoLock THEN m ELSE Spare(m)

\* a call of qipfs.NewFilesystem under the scope of mux m is under way, or
\* has returned to a caller that has not used the result yet
Building(m) == {f \in {m, Spare(m)} : cpc[f] \notin {"none", "used"}}

\* a SetFilesystem that makes every backend that can add the write destination
RegisterHandlerLastAdder(m, t) ==
  /\ IF t \in ReleasingTypes
     THEN /\ doneWg' = [doneWg EXCEPT ![m] = @ + 1]
          /\ watcher' = [watcher EXCEPT ![m] = "recv"]
     ELSE UNCHANGED <<doneWg, watcher>>
  /\ defaultWriteDestination' =
       IF t \in MerkleDagTypes
       THEN [defaultWriteDestination EXCEPT ![m] = t]
       ELSE defaultWriteDestination
  /\ handlers' = [handlers EXCEPT ![m] = Append(@, t)]

\* Mux.SetFilesystem of a backend of a type t the mux has no handler for
RegisterHandler(m, t) ==
  /\ IF t \in ReleasingTypes
     THEN /\ doneWg' = [doneWg EXCEPT ![m] = @ + 1]
          /\ watcher' = [watcher EXCEPT ![m] = "recv"]
     ELSE UNCHANGED <<doneWg, watcher>>
  /\ defaultWriteDestination' =
       IF defaultWriteDestination[m] = "" /\ t \in MerkleDagTypes
       THEN [defaultWriteDestination EXCEPT ![m] = t]
       ELSE defaultWriteDestination
  /\ handlers' = [handlers EXCEPT ![m] = Append(@, t)]

\* New is called with cfgs
NewCall(m, cfgs) ==
  /\ mpc[m] = "unborn"
  /\ mpc' = [mpc EXCEPT ![m] = "new"]
  /\ pending' = [pending EXCEPT ![m] = cfgs]
  /\ UNCHANGED <<newErr, handedOver, registryVars, doneWg, watcher, releaseVars, ctxDone, bpc,
                 backendVars, repoLock, lastPut, lastCall>>
  /\ UNCHANGED <<wwhVars, memVars, trackVars>>

\* one turn of New's loop over cfgs.  A type without a constructor fails the
\* call.  The constructors of the mem, local and http backends touch nothing
\* outside the backend, and the turn goes on to mux.SetFilesystem.  For a
\* qipfs backend the turn runs qipfs.NewFilesystem up to the lock probe of
\* openRepo
NewConfigure(m, o) ==
  /\ mpc[m] = "new"
  /\ pending[m] # <<>>
  /\ LET t == Head(pending[m])
         f == NextFst(m)
         e == IF t \notin KnownFSTypes THEN ErrUnrecognized
              ELSE IF t = IPFSFilestoreType THEN ProbeRepo(repoLock, o)
              ELSE IF t \in HandlerTypes(m) THEN ErrDuplicate
              ELSE Nil
     IN /\ t = IPFSFilestoreType => cpc[f] = "none"
        /\ handedOver' =
             IF t = IPFSFilestoreType
             THEN [handedOver EXCEPT ![m] = \E a \in Muxes \ {m} : muxDoneCh[a]]
             ELSE handedOver
        /\ IF e # Nil
           THEN /\ mpc' = [mpc EXCEPT ![m] = "failed"]
                /\ newErr' = [newErr EXCEPT ![m] = e]
                /\ pending' = [pending EXCEPT ![m] = <<>>]
                /\ UNCHANGED <<registryVars, doneWg, watcher, cpc>>
           ELSE IF t = IPFSFilestoreType
           THEN /\ mpc' = [mpc EXCEPT ![m] = "ctor"]
                /\ cpc' = [cpc EXCEPT ![f] = "open"]
                /\ UNCHANGED <<newErr, pending, registryVars, doneWg, watcher>>
           ELSE /\ RegisterHandler(m, t)
                /\ pending' = [pending EXCEPT ![m] = Tail(@)]
                /\ UNCHANGED <<mpc, newErr, cpc>>
  /\ UNCHANGED <<releaseVars, ctxDone, bpc, repoLock, lastPut, lastCall>>
  /\ UNCHANGED <<fstDoneErr, closeCalled, repoClosed, probe, ctorErr>>
  /\ UNCHANGED <<wwhVars, memVars, trackVars>>

\* qipfs.NewFilesystem is called under the scope of a mux New has returned
\* and that has no qipfs backend, and runs up to the lock probe of openRepo;
\* on a probe that fails or finds the lock held the call returns the error
\* and has changed nothing
BuildBackend(m, o) ==
  /\ mpc[m] = "live"
  /\ IPFSFilestoreType \notin HandlerTypes(m)
  /\ Building(m) = {}
  /\ cpc[NextFst(m)] = "none"
  /\ ProbeRepo(repoLock, o) = Nil
  /\ cpc' = [cpc EXCEPT ![NextFst(m)] = "open"]
  /\ UNCHANGED <<newVars, registryVars, doneWg, watcher, releaseVars, ctxDone, bpc,
                 fstDoneErr, closeCalled, repoClosed, probe, ctorErr, repoLock,
                 lastPut, lastCall>>
  /\ UNCHANGED <<wwhVars, memVars, trackVars>>

\* the rest of qipfs.NewFilesystem for the Filestore f: fsrepo.Open, which
\* takes the repo lock, then core.NewNode and coreapi.NewCoreAPI, whose
\* error leaves the repo open; then the release goroutine is started and the
\* Filestore is returned.  A call made for New hands its result to New's
\* loop; a call made for a mux New has returned gives its caller the
\* Filestore or the error
CtorOpen(f, o) ==
  /\ cpc[f] = "open"
  /\ LET r == openRepo(repoLock, f, o)
         e == IF r.err # Nil THEN r.err
              ELSE IF o = "nodeErr" THEN ErrNode
              ELSE Nil
     IN /\ repoLock' = r.lock
        /\ ctorErr' = IF mpc[Scope(f)] = "ctor" THEN [ctorErr EXCEPT ![f] = e]
                       ELSE ctorErr
        /\ bpc' = IF e = Nil THEN [bpc EXCEPT ![f] = "run"] ELSE bpc
        /\ cpc' = [cpc EXCEPT ![f] =
                     IF e = Nil THEN "built"
                     ELSE IF mpc[Scope(f)] = "ctor" THEN "failed"
                     ELSE IF e = ErrNode THEN "used"
                     ELSE "none"]
  /\ UNCHANGED <<newVars, registryVars, doneWg, watcher, releaseVars, ctxDone,
                 fstDoneErr, closeCalled, repoClosed, probe, lastPut, lastCall>>
  /\ UNCHANGED <<wwhVars, memVars, trackVars>>

\* the constructor returned to New: its error fails the call, and otherwise
\* the turn goes on to mux.SetFilesystem, which refuses a second qipfs
\* backend
NewRegister(m) ==
  /\ mpc[m] = "ctor"
  /\ \E f \in Building(m) :
       /\ cpc[f] \in {"built", "failed"}
       /\ cpc' = [cpc EXCEPT ![f] = "used"]
       /\ ctorErr' = [ctorErr EXCEPT ![f] = Nil]
       /\ LET e == IF cpc[f] = "failed" THEN ctorErr[f]
                   ELSE IF IPFSFilestoreType \in HandlerTypes(m) THEN ErrDuplicate
                   ELSE Nil
          IN IF e # Nil
             THEN /\ mpc' = [mpc EXCEPT ![m] = "failed"]
                  /\ newErr' = [newErr EXCEPT ![m] = e]
                  /\ pending' = [pending EXCEPT ![m] = <<>>]
                  /\ UNCHANGED <<registryVars, doneWg, watcher>>
             ELSE /\ RegisterHandler(m, IPFSFilestoreType)
                  /\ mpc' = [mpc EXCEPT ![m] = "new"]
                  /\ pending' = [pending EXCEPT ![m] = Tail(@)]
                  /\ UNCHANGED newErr
  /\ UNCHANGED <<handedOver, releaseVars, ctxDone, bpc, repoLock, lastPut, lastCall>>
  /\ UNCHANGED <<fstDoneErr, closeCalled, repoClosed, probe>>
  /\ UNCHANGED <<wwhVars, memVars, trackVars>>

\* New starts the goroutine that waits on doneWg and returns the mux
NewReturn(m) ==
  /\ mpc[m] = "new"
  /\ pending[m] = <<>>
  /\ mpc' = [mpc EXCEPT ![m] = "live"]
  /\ waiter' = [waiter EXCEPT ![m] = "wait"]
  /\ UNCHANGED <<pending, newErr, handedOver, registryVars, doneWg, watcher,
                 muxDoneCh, muxDoneErr,
                 ctxDone, bpc, backendVars, repoLock, lastPut, lastCall>>
  /\ UNCHANGED <<wwhVars, memVars, trackVars>>

\* Mux.SetFilesystem on a mux New has returned, with a backend of a type the
\* mux has no handler for; a qipfs backend is the one qipfs.NewFilesystem
\* has returned under the mux's scope
SetFilesystem(m, t) ==
  /\ mpc[m] = "live"
  /\ t \in KnownFSTypes \ HandlerTypes(m)
  /\ IF t = IPFSFilestoreType
     THEN /\ cpc[m] = "built"
          /\ cpc' = [cpc EXCEPT ![m] = "used"]
     ELSE UNCHANGED cpc
  /\ RegisterHandler(m, t)
  /\ UNCHANGED <<newVars, releaseVars, ctxDone, bpc, repoLock, lastPut, lastCall>>
  /\ UNCHANGED <<fstDoneErr, closeCalled, repoClosed, probe, ctorErr>>
  /\ UNCHANGED <<wwhVars, memVars, trackVars>>

\* mux.doneWg.Wait() returns
WaiterWaitReturns(m) ==
  /\ waiter[m] = "wait"
  /\ doneWg[m] = 0
  /\ waiter' = [waiter EXCEPT ![m] = "close"]
  /\ UNCHANGED <<newVars, registryVars, doneWg, watcher, muxDoneCh, muxDoneErr,
                 ctxDone, bpc, backendVars, repoLock, lastPut, lastCall>>
  /\ UNCHANGED <<wwhVars, memVars, trackVars>>

\* close(mux.doneCh)
WaiterClose(m) ==
  /\ waiter[m] = "close"
  /\ waiter' = [waiter EXCEPT ![m] = "exit"]
  /\ muxDoneCh' = [muxDoneCh EXCEPT ![m] = TRUE]
  /\ UNCHANGED <<newVars, registryVars, doneWg, watcher, muxDoneErr, ctxDone,
                 bpc, backendVars, repoLock, lastPut, lastCall>>
  /\ UNCHANGED <<wwhVars, memVars, trackVars>>

\* <-releaser.Done()
WatcherReceive(m) ==
  /\ watcher[m] = "recv"
  /\ FstDone(m)
  /\ watcher' = [watcher EXCEPT ![m] = "record"]
  /\ UNCHANGED <<newVars, registryVars, doneWg, releaseVars, ctxDone, bpc,
                 backendVars, repoLock, lastPut, lastCall>>
  /\ UNCHANGED <<wwhVars, memVars, trackVars>>

\* m.doneErr = releaser.DoneErr()
WatcherRecord(m) ==
  /\ watcher[m] = "record"
  /\ watcher' = [watcher EXCEPT ![m] = "release"]
  /\ muxDoneErr' = [muxDoneErr EXCEPT ![m] = fstDoneErr[m]]
  /\ UNCHANGED <<newVars, registryVars, doneWg, waiter, muxDoneCh, ctxDone, bpc,
                 backendVars, repoLock, lastPut, lastCall>>
  /\ UNCHANGED <<wwhVars, memVars, trackVars>>

\* a watcher that exits without m.doneWg.Done()
WatcherDoneOmitted(m) ==
  /\ watcher[m] = "release"
  /\ watcher' = [watcher EXCEPT ![m] = "exit"]
  /\ UNCHANGED <<newVars, registryVars, doneWg, releaseVars, ctxDone, bpc,
                 backendVars, repoLock, lastPut, lastCall>>
  /\ UNCHANGED <<wwhVars, memVars, trackVars>>

\* m.doneWg.Done()
WatcherDone(m) ==
  /\ watcher[m] = "release"
  /\ watcher' = [watcher EXCEPT ![m] = "exit"]
  /\ doneWg' = [doneWg EXCEPT ![m] = @ - 1]
  /\ UNCHANGED <<newVars, registryVars, releaseVars, ctxDone, bpc, backendVars,
                 repoLock, lastPut, lastCall>>
  /\ UNCHANGED <<wwhVars, memVars, trackVars>>

\* the scope passed to New is cancelled
CancelScope(m) ==
  /\ mpc[m] # "unborn"
  /\ ~ctxDone[m]
  /\ ctxDone' = [ctxDone EXCEPT ![m] = TRUE]
  /\ UNCHANGED <<newVars, registryVars, doneWg, watcher, releaseVars, bpc,
                 backendVars, repoLock, lastPut, lastCall>>
  /\ UNCHANGED <<wwhVars, memVars, trackVars>>

\* the release goroutine: <-ctx.Done(); fst.doneErr = ctx.Err()
FstCtxDone(m) ==
  /\ bpc[m] = "run"
  /\ ctxDone[Scope(m)]
  /\ bpc' = [bpc EXCEPT ![m] = "close"]
  /\ fstDoneErr' = [fstDoneErr EXCEPT ![m] = ErrCanceled]
  /\ UNCHANGED <<newVars, registryVars, doneWg, watcher, releaseVars, ctxDone,
                 closeCalled, repoClosed, probe, cpc, ctorErr, repoLock, lastPut, lastCall>>
  /\ UNCHANGED <<wwhVars, memVars, trackVars>>

\* cfg.Repo.Close(): closing releases the repo lock; an error is logged and
\* leaves the repo as it was
FstRepoClose(m, o) ==
  /\ bpc[m] = "close"
  /\ bpc' = [bpc EXCEPT ![m] = "probe"]
  /\ closeCalled' = [closeCalled EXCEPT ![m] = TRUE]
  /\ IF o = "ok"
     THEN /\ repoClosed' = [repoClosed EXCEPT ![m] = TRUE]
          /\ repoLock' = repoLock \ {m}
     ELSE UNCHANGED <<repoClosed, repoLock>>
  /\ UNCHANGED <<newVars, registryVars, doneWg, watcher, releaseVars, ctxDone,
                 fstDoneErr, probe, cpc, ctorErr, lastPut, lastCall>>
  /\ UNCHANGED <<wwhVars, memVars, trackVars>>

\* fsrepo.LockedByOtherProcess in the release loop: an error and a free lock
\* leave the loop, a held lock sleeps
FstProbe(m, o) ==
  /\ bpc[m] = "probe"
  /\ LET res == IF o = "err" THEN "err"
                ELSE IF repoLock # {} THEN "locked" ELSE "free"
     IN /\ probe' = [probe EXCEPT ![m] = res]
        /\ bpc' = [bpc EXCEPT ![m] = IF res = "locked" THEN "sleep" ELSE "closeCh"]
  /\ UNCHANGED <<newVars, registryVars, doneWg, watcher, releaseVars, ctxDone,
                 fstDoneErr, closeCalled, repoClosed, cpc, ctorErr, repoLock, lastPut, lastCall>>
  /\ UNCHANGED <<wwhVars, memVars, trackVars>>

\* time.Sleep(time.Millisecond * 25); continue
FstSleep(m) ==
  /\ bpc[m] = "sleep"
  /\ bpc' = [bpc EXCEPT ![m] = "probe"]
  /\ UNCHANGED <<newVars, registryVars, doneWg, watcher, releaseVars, ctxDone,
                 backendVars, repoLock, lastPut, lastCall>>
  /\ UNCHANGED <<wwhVars, memVars, trackVars>>

\* close(fst.doneCh)
FstCloseDone(m) ==
  /\ bpc[m] = "closeCh"
  /\ bpc' = [bpc EXCEPT ![m] = "done"]
  /\ UNCHANGED <<newVars, registryVars, doneWg, watcher, releaseVars, ctxDone,
                 backendVars, repoLock, lastPut, lastCall>>
  /\ UNCHANGED <<wwhVars, memVars, trackVars>>

\* Mux.Put of a file whose full path is path
Put(m, path, o) ==
  /\ mpc[m] = "live"
  /\ lastPut' = [mux |-> m, kind |-> PathKind(path),
                 err |-> MuxPut(handlers[m], path, repoClosed[m], o),
                 done |-> muxDoneCh[m]]
  /\ UNCHANGED <<newVars, registryVars, doneWg, watcher, releaseVars, ctxDone,
                 bpc, backendVars, repoLock, lastCall>>
  /\ UNCHANGED <<wwhVars, memVars, trackVars>>

MuxOps == {"Get", "Has", "Put", "Delete"}

\* Mux.Get, Mux.Has, Mux.Put or Mux.Delete of a path
MuxCall(m, op, path, o) ==
  /\ mpc[m] = "live"
  /\ LET r == CASE op = "Get" -> MuxGet(handlers[m], path, repoClosed[m], o)
                [] op = "Has" -> MuxHas(handlers[m], path, repoClosed[m], o)
                [] OTHER -> MuxPutDelete(handlers[m], op, path, repoClosed[m], o)
     IN lastCall' = [mux |-> m, op |-> op, path |-> path, handlers |-> handlers[m],
                     called |-> r.called, err |-> r.err, exists |-> r.exists]
  /\ UNCHANGED <<newVars, registryVars, doneWg, watcher, releaseVars, ctxDone,
                 bpc, backendVars, repoLock, lastPut>>
  /\ UNCHANGED <<wwhVars, memVars, trackVars>>

(***************************************************************************)
(* Store operations on one MemFS, and adder sessions on it.                *)
(***************************************************************************)
\* the largest number of store operations called on the MemFS
MaxOps == 3
\* the largest number of AddFile calls of one adder session
MaxAdds == 2

Sessions == {1, 2}

\* NewMemfileBytes("file.txt", []byte("foo")), the file of oneFile
OneFile == Memfile(<<"file.txt">>, "foo", FALSE)
\* a byte file whose bytes are the "<hash>\n" line of a directory entry
ManifestFile == Memfile(<<"b.txt">>, hashBytes("foo") \o "\n", FALSE)
\* a file whose reader fails
BadFile == Memfile(<<"x.txt">>, "bar", TRUE)
\* the tree of TestMemFS: NewMemdir("/", NewMemdir("b", a.txt))
TestMemFSTree ==
  NewMemdir(<<"", "">>, <<NewMemdir(<<"b">>, <<Memfile(<<"a.txt">>, "this is file a", FALSE)>>)>>)
\* a flat directory
FlatTree ==
  NewMemdir(<<"", "">>, <<Memfile(<<"a.txt">>, "foo", FALSE),
                          Memfile(<<"b.txt">>, "bar", FALSE)>>)
\* the tree of EnsureDirectoryBehavior: NewMemdir("/a", b.txt, NewMemdir("c", d.txt), e.txt)
DirectoryBehaviorTree ==
  NewMemdir(<<"", "a">>, <<Memfile(<<"b.txt">>, "a", FALSE),
                           NewMemdir(<<"c">>, <<Memfile(<<"d.txt">>, "d", FALSE)>>),
                           Memfile(<<"e.txt">>, "e", FALSE)>>)
\* directories nested two levels below "/"
DeepTree ==
  NewMemdir(<<"", "">>,
            <<NewMemdir(<<"b">>,
                        <<NewMemdir(<<"c">>, <<Memfile(<<"d.txt">>, "bar", FALSE)>>)>>)>>)
\* a directory next to a byte file holding that directory's "<hash>\n" lines
ShadowTree ==
  NewMemdir(<<"", "">>, <<NewMemdir(<<"c">>, <<Memfile(<<"d.txt">>, "foo", FALSE)>>),
                          ManifestFile>>)

\* the children of FlatTree, supplied in the other order
UnsortedTree ==
  NewMemdir(<<"", "">>, <<Memfile(<<"b.txt">>, "bar", FALSE),
                          Memfile(<<"a.txt">>, "foo", FALSE)>>)

PutTrees ==
  {TestMemFSTree, FlatTree, UnsortedTree, DirectoryBehaviorTree, DeepTree, ShadowTree}
PutInputs == {OneFile, ManifestFile, BadFile} \cup PutTrees

\* the keys PutFileAtKey is called with
AtKeys == {"", "key"}
AtKeyFiles == {OneFile, BadFile, FlatTree}

\* the bytes PutBlock is called with, the files PutFile is called with
BlockData == {"foo", "bar"}
BlockFiles == {OneFile, BadFile}
\* the links PutNode is called with: none, one, and the two links of FlatTree
NodeLinks ==
  {NoFiles,
   [n \in {"a.txt"} |-> hashBytes("foo")],
   [n \in {"a.txt", "b.txt"} |-> IF n = "a.txt" THEN hashBytes("foo") ELSE hashBytes("bar")]}

\* the child names that lead from a directory to each of its descendants
RECURSIVE DescNames(_)
DescNames(t) ==
  UNION {{<<FileName(t.children[i])>>} \cup
         {<<FileName(t.children[i])>> \o q : q \in DescNames(t.children[i])} :
         i \in 1..Len(t.children)}

\* the descendant of a directory that a sequence of child names leads to
RECURSIVE Descendant(_, _)
Descendant(t, names) ==
  IF names = <<>> THEN t
  ELSE LET i == CHOOSE j \in 1..Len(t.children) : FileName(t.children[j]) = Head(names)
       IN Descendant(t.children[i], Tail(names))

\* the paths Get, Has and Delete are called with: the path of every entry a
\* Put input leaves in the store, extended with the child names of the input
\* and with a name no directory holds; a path without digest; "/mem/"
MemKeys ==
  LET stored(f) == DOMAIN put(NoFiles, f).files
      below(f) == IF IsDirectory(f) THEN DescNames(f) ELSE {}
  IN UNION {{MemPath(h) : h \in stored(f)} \cup
            {MemFSPut(NoFiles, f).path \o q : q \in below(f) \cup {<<"nope">>}} :
            f \in PutInputs \ {BadFile}}
     \cup {<<"no-match">>, MemPath("")}

NoFile == Memfile(<<"">>, "", FALSE)

NoOp ==
  [op |-> "none", key |-> <<>>, file |-> NoFile, err |-> Nil, path |-> <<>>,
   exists |-> FALSE, out |-> NoFile, before |-> NoFiles]

NoWalk == [tree |-> NoFile, bad |-> {}, visited |-> <<>>, err |-> Nil]

\* NewAdder
NewSession ==
  [tree |-> NewTree, out |-> <<>>, closed |-> FALSE, added |-> <<>>,
   writes |-> 0, root |-> <<>>, at |-> "idle", pend |-> NoPend]

Tasks == {1, 2}

NoTask == [op |-> "", at |-> 0, inMap |-> FALSE]

\* NewMemFS, and two adders on it
MemIdle ==
  /\ mFiles = NoFiles
  /\ mOp = NoOp
  /\ mPut = [file |-> NoFile, path |-> <<>>, err |-> Nil, fresh |-> FALSE,
             todo |-> <<>>, before |-> NoFiles]
  /\ mHeld = {}
  /\ mOps = 0
  /\ sess = [s \in Sessions |-> NewSession]
  /\ walked = NoWalk
  /\ filesLk = 0
  /\ task = [t \in Tasks |-> NoTask]

\* what mOp records when a Put returns
PutReturned(p) ==
  [NoOp EXCEPT !.op = "Put", !.file = p.file, !.err = p.err, !.path = p.path,
               !.before = p.before]

\* what mOp records after a write of a Put that has more to do
PutWrote(p, files) == [NoOp EXCEPT !.op = "put", !.file = p.file, !.before = files]

\* MemFS.Put is called, no other Put being under way, and runs up to its
\* first write to m.Files; a Put with at most one write returns in this step
MemPut(f) ==
  /\ mOps < MaxOps
  /\ mPut.todo = <<>>
  /\ LET r == putWrites(f)
         first == IF r.writes = <<>> THEN <<>> ELSE <<Head(r.writes)>>
         rest == IF r.writes = <<>> THEN <<>> ELSE Tail(r.writes)
         p == [file |-> f, path |-> MemPath(r.hash), err |-> r.err, fresh |-> TRUE,
               todo |-> rest, before |-> mFiles]
     IN /\ mFiles' = StoreAll(mFiles, first)
        /\ mPut' = p
        /\ mOp' = IF rest = <<>> THEN PutReturned(p) ELSE PutWrote(p, mFiles)
        /\ mHeld' = IF rest = <<>> /\ r.err = Nil THEN mHeld \cup {p.path} ELSE mHeld
  /\ mOps' = mOps + 1
  /\ UNCHANGED <<sess, walked, filesLk, task, wwhVars, muxVars, trackVars>>

\* the Put under way takes filesLk for its next write to m.Files and
\* releases it; after its last write it returns
MemPutWrite ==
  /\ mPut.todo # <<>>
  /\ LET w == Head(mPut.todo)
         p == [mPut EXCEPT !.todo = Tail(@)]
     IN /\ mFiles' = StorePut(mFiles, w.hash, w.entry)
        /\ mPut' = p
        /\ mOp' = IF p.todo = <<>> THEN PutReturned(p) ELSE PutWrote(p, mFiles)
        /\ mHeld' = IF p.todo = <<>> /\ p.err = Nil THEN mHeld \cup {p.path} ELSE mHeld
  /\ UNCHANGED <<mOps, sess, walked, filesLk, task, wwhVars, muxVars, trackVars>>

\* MemFS.PutFileAtKey
MemPutFileAtKey(key, f) ==
  /\ mOps < MaxOps
  /\ LET r == PutFileAtKey(mFiles, key, f)
     IN /\ mFiles' = r.files
        /\ mOp' = [NoOp EXCEPT !.op = "PutFileAtKey", !.key = <<key>>, !.file = f,
                               !.err = r.err, !.before = mFiles]
  /\ mPut' = [mPut EXCEPT !.fresh = FALSE]
  /\ mOps' = mOps + 1
  /\ UNCHANGED <<mHeld, sess, walked, filesLk, task, wwhVars, muxVars, trackVars>>

\* MemFS.PutBlock
MemPutBlock(data) ==
  /\ mOps < MaxOps
  /\ LET r == PutBlock(mFiles, data)
     IN /\ mFiles' = r.files
        /\ mOp' = [NoOp EXCEPT !.op = "PutBlock", !.key = <<r.hash>>, !.err = r.err,
                               !.before = mFiles]
  /\ mPut' = [mPut EXCEPT !.fresh = FALSE]
  /\ mOps' = mOps + 1
  /\ UNCHANGED <<mHeld, sess, walked, filesLk, task, wwhVars, muxVars, trackVars>>

\* MemFS.PutFile
MemPutFile(f) ==
  /\ mOps < MaxOps
  /\ LET r == PutFile(mFiles, f)
     IN /\ mFiles' = r.files
        /\ mOp' = [NoOp EXCEPT !.op = "PutFile", !.key = <<r.hash>>, !.file = f,
                               !.err = r.err, !.before = mFiles]
  /\ mPut' = [mPut EXCEPT !.fresh = FALSE]
  /\ mOps' = mOps + 1
  /\ UNCHANGED <<mHeld, sess, walked, filesLk, task, wwhVars, muxVars, trackVars>>

\* MemFS.PutNode
MemPutNode(links) ==
  /\ mOps < MaxOps
  /\ LET r == PutNode(mFiles, links)
     IN /\ mFiles' = r.files
        /\ mOp' = [NoOp EXCEPT !.op = "PutNode", !.key = <<r.hash>>, !.err = r.err,
                               !.before = mFiles]
  /\ mPut' = [mPut EXCEPT !.fresh = FALSE]
  /\ mOps' = mOps + 1
  /\ UNCHANGED <<mHeld, sess, walked, filesLk, task, wwhVars, muxVars, trackVars>>

\* MemFS.Get
MemGet(key) ==
  /\ mOps < MaxOps
  /\ \E r \in Get(mFiles, key) :
       mOp' = [NoOp EXCEPT !.op = "Get", !.key = key, !.err = r.err,
                           !.out = r.file, !.before = mFiles]
  /\ mOps' = mOps + 1
  /\ UNCHANGED <<mFiles, mPut, mHeld, sess, walked, filesLk, task, wwhVars, muxVars, trackVars>>

\* MemFS.Has
MemHas(key) ==
  /\ mOps < MaxOps
  /\ LET r == Has(mFiles, key)
     IN mOp' = [NoOp EXCEPT !.op = "Has", !.key = key, !.err = r.err,
                            !.exists = r.exists, !.before = mFiles]
  /\ mOps' = mOps + 1
  /\ UNCHANGED <<mFiles, mPut, mHeld, sess, walked, filesLk, task, wwhVars, muxVars, trackVars>>

\* MemFS.Delete
MemDelete(key) ==
  /\ mOps < MaxOps
  /\ LET r == Delete(mFiles, key)
     IN /\ mFiles' = r.files
        /\ mOp' = [NoOp EXCEPT !.op = "Delete", !.key = key, !.err = r.err,
                               !.before = mFiles]
        /\ mHeld' = IF r.err = Nil THEN mHeld \ {key} ELSE mHeld
  /\ mPut' = [mPut EXCEPT !.fresh = FALSE]
  /\ mOps' = mOps + 1
  /\ UNCHANGED <<sess, walked, filesLk, task, wwhVars, muxVars, trackVars>>

\* the positions of the nodes of a tree
RECURSIVE Positions(_)
Positions(t) ==
  {<<>>} \cup UNION {{<<i>> \o q : q \in Positions(t.children[i])} :
                       i \in 1..Len(t.children)}

\* the most visits that fail in one walk
MaxBad == 3

\* qfs.Walk of a tree, with a visit that fails at the nodes of bad; a
\* behaviour holds one call
WalkCall(t, bad) ==
  /\ walked = NoWalk
  /\ LET r == Walk(t, <<>>, bad)
     IN walked' = [tree |-> t, bad |-> bad, visited |-> r.visited, err |-> r.err]
  /\ UNCHANGED <<mFiles, mOp, mPut, mHeld, mOps, sess, filesLk, task, wwhVars, muxVars, trackVars>>

\* the files handed to the adders: byte files at "/x.txt" and "/a/b.txt",
\* and the directory "/a"
AdderFiles ==
  {Memfile(<<"", "x.txt">>, "foo", FALSE),
   Memfile(<<"", "a", "b.txt">>, "foo", FALSE),
   Memfile(<<"", "a", "b.txt">>, "bar", FALSE),
   Memfile(<<"", "a", "c.txt">>, "bar", FALSE),
   Memdir(<<"", "a">>, <<>>)}

\* adder.AddFile of session s up to its send: addNode, the store is written
\* in a lock section, and node.hash is set
SessAddFile(s, f) ==
  /\ sess[s].at = "idle"
  /\ ~sess[s].closed
  /\ Len(sess[s].added) < MaxAdds
  /\ LET r == AddFile(mFiles, sess[s].tree, f)
     IN /\ mFiles' = r.files
        /\ sess' = [sess EXCEPT ![s] =
                      [@ EXCEPT !.tree = r.tree,
                                !.added = Append(@, f),
                                !.writes = @ + (IF r.err = Nil THEN 1 ELSE 0),
                                !.at = IF r.err # Nil THEN "idle" ELSE "send",
                                !.pend = [file |-> f, event |-> r.event]]]
  /\ UNCHANGED <<mOp, mPut, mHeld, mOps, walked, filesLk, task, wwhVars, muxVars, trackVars>>

\* the end of adder.AddFile of session s: the event is sent on a.out, which
\* waits while the channel is full
SessSend(s) ==
  /\ sess[s].at = "send"
  /\ Len(sess[s].out) < AdderOutCap
  /\ sess' = [sess EXCEPT ![s] =
                [@ EXCEPT !.out = @ \o sess[s].pend.event,
                          !.at = "idle",
                          !.pend = NoPend]]
  /\ UNCHANGED <<mFiles, mOp, mPut, mHeld, mOps, walked, filesLk, task, wwhVars, muxVars, trackVars>>

\* adder.Finalize of session s is called: close(a.out)
SessFinalize(s) ==
  /\ sess[s].at = "idle"
  /\ ~sess[s].closed
  /\ sess' = [sess EXCEPT ![s] = [@ EXCEPT !.closed = TRUE, !.at = "root"]]
  /\ UNCHANGED <<mFiles, mOp, mPut, mHeld, mOps, walked, filesLk, task, wwhVars, muxVars, trackVars>>

\* adder.Finalize of session s: the root directory is written in a lock
\* section and its path is returned
SessFinalizeRoot(s) ==
  /\ sess[s].at = "root"
  /\ LET r == Finalize(mFiles, sess[s].tree)
     IN /\ mFiles' = r.files
        /\ sess' = [sess EXCEPT ![s] =
                      [@ EXCEPT !.tree = r.tree, !.at = "idle",
                                !.writes = @ + 1, !.root = r.path]]
  /\ UNCHANGED <<mOp, mPut, mHeld, mOps, walked, filesLk, task, wwhVars, muxVars, trackVars>>

\* Finalize of session s has returned
Finalized(s) == sess[s].closed /\ sess[s].at = "idle"

(***************************************************************************)
(* The store operations as tasks that run side by side: only the           *)
(* statements that take or release filesLk and those that read or write    *)
(* the map m.Files.  A map access is not atomic: it begins and it ends.     *)
(***************************************************************************)
StoreOps ==
  {"Put", "PutFileAtKey", "PutNode", "PutBlock", "Delete", "Get", "Has",
   "ObjectCount", "AddFile", "Finalize"}

\* the lock and map statements of an operation, in program order (Put and
\* AddFile of a byte file)
MapSteps(op) ==
  CASE op \in {"Put", "PutBlock", "Delete", "AddFile", "Finalize"} ->
         <<"lock", "write", "unlock">>
    [] op \in {"Get", "Has"} -> <<"lock", "read", "unlock">>
    [] op \in {"PutFileAtKey", "PutNode"} -> <<"write">>
    [] op = "ObjectCount" -> <<"read">>

AtStep(t) == IF task[t].at = 0 THEN "" ELSE MapSteps(task[t].op)[task[t].at]

\* the task after the statement it is at: the next statement, or the return
Advance(tk) ==
  IF tk.at = Len(MapSteps(tk.op)) THEN NoTask
  ELSE [tk EXCEPT !.at = @ + 1, !.inMap = FALSE]

lockFrame == <<mFiles, mOp, mPut, mHeld, mOps, sess, walked, wwhVars, muxVars, trackVars>>

\* a task calls a store operation
TaskCall(t, op) ==
  /\ task[t] = NoTask
  /\ task' = [task EXCEPT ![t] = [op |-> op, at |-> 1, inMap |-> FALSE]]
  /\ UNCHANGED <<filesLk, lockFrame>>

\* m.filesLk.Lock()
TaskLock(t) ==
  /\ AtStep(t) = "lock"
  /\ filesLk = 0
  /\ filesLk' = t
  /\ task' = [task EXCEPT ![t] = Advance(@)]
  /\ UNCHANGED lockFrame

\* the read or write of m.Files begins
TaskMapBegin(t) ==
  /\ AtStep(t) \in {"read", "write"}
  /\ ~task[t].inMap
  /\ task' = [task EXCEPT ![t].inMap = TRUE]
  /\ UNCHANGED <<filesLk, lockFrame>>

\* the read or write of m.Files ends
TaskMapEnd(t) ==
  /\ task[t].inMap
  /\ task' = [task EXCEPT ![t] = Advance(@)]
  /\ UNCHANGED <<filesLk, lockFrame>>

\* m.filesLk.Unlock()
TaskUnlock(t) ==
  /\ AtStep(t) = "unlock"
  /\ filesLk' = 0
  /\ task' = [task EXCEPT ![t] = Advance(@)]
  /\ UNCHANGED lockFrame

\* ---- a Mux tracking several releasing backends ----

\* the releasing filesystems handed to SetFilesystem of one Mux, each of a
\* type of its own
Backends == {1, 2}

\* what a backend's DoneErr() returns once its done channel is closed
BackendErrs == {Nil, ErrCanceled}

\* New has made the Mux, no filesystem is set yet
TrackIdle ==
  /\ relDone = [b \in Backends |-> FALSE]
  /\ relErr = [b \in Backends |-> Nil]
  /\ relWatcher = [b \in Backends |-> "none"]
  /\ relWg = 0
  /\ relWaiter = "unborn"
  /\ relMuxDone = FALSE
  /\ relMuxErr = Nil

trackFrame == <<wwhVars, muxVars, memVars>>

\* the process runs: no goroutine has panicked
TrackRunning == relWaiter # "panic"

\* SetFilesystem(fs) for a qfs.ReleasingFilesystem of a type the Mux does
\* not have yet, called before the waiter starts or, the method being
\* public, at any time after: m.doneWg.Add(1) and the watcher goroutine
\* starts.  An Add that meets a Wait whose counter has just reached zero
\* misuses the WaitGroup: Add panics when it runs before the counter's state
\* is reset, and otherwise the woken Wait panics when it returns
TrackSetFilesystem(b) ==
  /\ TrackRunning
  /\ relWatcher[b] = "none"
  /\ \/ /\ relWg' = relWg + 1
        /\ relWatcher' = [relWatcher EXCEPT ![b] = "recv"]
        /\ UNCHANGED relWaiter
     \/ /\ relWaiter = "woken"
        /\ relWaiter' = "panic"
        /\ UNCHANGED <<relWg, relWatcher>>
  /\ UNCHANGED <<relDone, relErr, relMuxDone, relMuxErr, trackFrame>>

\* New starts the goroutine that waits for doneWg and returns the Mux
TrackNewReturns ==
  /\ relWaiter = "unborn"
  /\ relWaiter' = "wait"
  /\ UNCHANGED <<relDone, relErr, relWatcher, relWg, relMuxDone, relMuxErr, trackFrame>>

\* the goroutine calls mux.doneWg.Wait(): it returns at once when the counter
\* is zero and blocks otherwise
TrackWaitCalled ==
  /\ relWaiter = "wait"
  /\ relWaiter' = IF relWg = 0 THEN "close" ELSE "blocked"
  /\ UNCHANGED <<relDone, relErr, relWatcher, relWg, relMuxDone, relMuxErr, trackFrame>>

\* a backend finishes its cleanup: it closes its done channel, and its
\* DoneErr() returns e from then on
BackendReleases(b, e) ==
  /\ TrackRunning
  /\ relWatcher[b] # "none"
  /\ ~relDone[b]
  /\ relDone' = [relDone EXCEPT ![b] = TRUE]
  /\ relErr' = [relErr EXCEPT ![b] = e]
  /\ UNCHANGED <<relWatcher, relWg, relWaiter, relMuxDone, relMuxErr, trackFrame>>

\* <-releaser.Done()
TrackReceive(b) ==
  /\ TrackRunning
  /\ relWatcher[b] = "recv"
  /\ relDone[b]
  /\ relWatcher' = [relWatcher EXCEPT ![b] = "record"]
  /\ UNCHANGED <<relDone, relErr, relWg, relWaiter, relMuxDone, relMuxErr, trackFrame>>

\* m.doneErr = releaser.DoneErr(): the statement takes no lock
TrackRecord(b) ==
  /\ TrackRunning
  /\ relWatcher[b] = "record"
  /\ relMuxErr' = relErr[b]
  /\ relWatcher' = [relWatcher EXCEPT ![b] = "release"]
  /\ UNCHANGED <<relDone, relErr, relWg, relWaiter, relMuxDone, trackFrame>>

\* m.doneWg.Done(): the Done that brings the counter to zero wakes a
\* blocked Wait
TrackDone(b) ==
  /\ TrackRunning
  /\ relWatcher[b] = "release"
  /\ relWg' = relWg - 1
  /\ relWatcher' = [relWatcher EXCEPT ![b] = "exit"]
  /\ relWaiter' = IF relWaiter = "blocked" /\ relWg = 1 THEN "woken" ELSE relWaiter
  /\ UNCHANGED <<relDone, relErr, relMuxDone, relMuxErr, trackFrame>>

\* the woken mux.doneWg.Wait() returns, or panics with "WaitGroup is reused
\* before previous Wait has returned" when the counter was raised again
TrackWaitReturns ==
  /\ relWaiter = "woken"
  /\ relWaiter' = IF relWg = 0 THEN "close" ELSE "panic"
  /\ UNCHANGED <<relDone, relErr, relWatcher, relWg, relMuxDone, relMuxErr, trackFrame>>

\* close(mux.doneCh)
TrackClose ==
  /\ relWaiter = "close"
  /\ relMuxDone' = TRUE
  /\ relWaiter' = "exit"
  /\ UNCHANGED <<relDone, relErr, relWatcher, relWg, relMuxErr, trackFrame>>

TrackNext ==
  \/ \E b \in Backends : TrackSetFilesystem(b)
  \/ TrackNewReturns
  \/ TrackWaitCalled
  \/ \E b \in Backends, e \in BackendErrs : BackendReleases(b, e)
  \/ \E b \in Backends : TrackReceive(b)
  \/ \E b \in Backends : TrackRecord(b)
  \/ \E b \in Backends : TrackDone(b)
  \/ TrackWaitReturns
  \/ TrackClose

\* the tree of TestWriteHooksRollback: /a/{hook on a file given as "b.txt"
\* requiring /a/d.txt whose callback fails, c.txt, d.txt}; the hook file is no
\* PathSetter and keeps the path it was given
TestWriteHooksRollbackTree ==
  NewMemdir(DirPath,
    <<NewWriteHookFile(Memfile(<<"b.txt">>, "foo", FALSE), "fail", <<LeafPath(3)>>),
      Memfile(<<"c.txt">>, "bar", FALSE),
      Memfile(<<"d.txt">>, "baz", FALSE)>>)

\* the trees written: every tree of leaves that carry their full path, and
\* the tree of TestWriteHooksRollback
Init ==
  /\ CallInit(InputTrees \cup {TestWriteHooksRollbackTree}, InitialStores)
  /\ MuxIdle /\ MemIdle /\ TrackIdle

\* the tree of TestWriteHooks: /a/{b.txt hook requiring /a/d.txt,
\* c.txt hook requiring /a/b.txt, d.txt}
TestWriteHooksTree ==
  NewMemdir(DirPath,
    <<NewWriteHookFile(Memfile(LeafPath(1), "foo", FALSE), "rewrite", <<LeafPath(3)>>),
      NewWriteHookFile(Memfile(LeafPath(2), "bar", FALSE), "same", <<LeafPath(1)>>),
      Memfile(<<"d.txt">>, "baz", FALSE)>>)

Next ==
  \/ VisitDirectory
  \/ VisitLeaf
  \/ ScanWaitingHook
  \/ HookAddFile
  \/ AdderSend
  \/ ScanReceive
  \/ VisitHook
  \/ VisitFile
  \/ VisitReceive
  \/ WalkReturns
  \/ SendWalkError
  \/ FinalHook
  \/ CollectMissed
  \/ SendMissed
  \/ SendFinalError
  \/ CallFinalize
  \/ FinalizeRoot
  \/ FinalizeReturn
  \/ SendNil
  \/ ConsumerReceive
  \/ ConsumerRecord
  \/ ConsumerSend
  \/ ConsumerExit
  \/ CallerReadsFinalPath
  \/ RollbackDelete
  \/ RollbackReturn
  \/ Cancel
  \/ ConcurrentMapFault

Spec == Init /\ [][Next]_vars

\* WriteWithHooks on a Filesystem whose Delete may fail
RollbackNext ==
  \/ VisitDirectory
  \/ VisitLeaf
  \/ ScanWaitingHook
  \/ HookAddFile
  \/ AdderSend
  \/ ScanReceive
  \/ VisitHook
  \/ VisitFile
  \/ VisitReceive
  \/ WalkReturns
  \/ SendWalkError
  \/ FinalHook
  \/ CollectMissed
  \/ SendMissed
  \/ SendFinalError
  \/ CallFinalize
  \/ FinalizeRoot
  \/ FinalizeReturn
  \/ SendNil
  \/ ConsumerReceive
  \/ ConsumerRecord
  \/ ConsumerSend
  \/ ConsumerExit
  \/ CallerReadsFinalPath
  \/ \E o \in DeleteOutcomes : RollbackStep(o)
  \/ RollbackReturn
  \/ Cancel
  \/ ConcurrentMapFault

RollbackSpec == Init /\ [][RollbackNext]_vars

\* the steps of the three goroutines of a call; the Go scheduler runs every
\* goroutine that is able to take a step
Progress ==
  \/ VisitDirectory
  \/ VisitLeaf
  \/ ScanWaitingHook
  \/ HookAddFile
  \/ AdderSend
  \/ ScanReceive
  \/ VisitHook
  \/ VisitFile
  \/ VisitReceive
  \/ WalkReturns
  \/ SendWalkError
  \/ FinalHook
  \/ CollectMissed
  \/ SendMissed
  \/ SendFinalError
  \/ CallFinalize
  \/ FinalizeRoot
  \/ FinalizeReturn
  \/ SendNil
  \/ ConsumerReceive
  \/ ConsumerRecord
  \/ ConsumerSend
  \/ ConsumerExit
  \/ CallerReadsFinalPath
  \/ RollbackDelete
  \/ RollbackReturn

Fairness == WF_vars(Progress)

\* /a/{b.txt hook requiring /a/c.txt whose callback returns the file itself,
\* c.txt, d.txt, e.txt}: two leaves are visited after the hook on b.txt can
\* fire
DelayedHookTree ==
  Memdir(DirPath,
    <<NewWriteHookFile(Memfile(LeafPath(1), "foo", FALSE), "same", <<LeafPath(2)>>),
      Memfile(LeafPath(2), "bar", FALSE),
      Memfile(LeafPath(3), "baz", FALSE),
      Memfile(LeafPath(4), LeafData[4], FALSE)>>)

\* /a/{b.txt hook without requirements whose callback fails, c.txt}
FailingHookTree ==
  Memdir(DirPath,
    <<NewWriteHookFile(Memfile(LeafPath(1), "foo", FALSE), "fail", <<>>),
      Memfile(LeafPath(2), "bar", FALSE)>>)

\* /a/{b.txt hook requiring /a/d.txt whose callback fails, c.txt hook
\* requiring /a/d.txt, d.txt}: two hooks wait until the walk has ended
TwoWaitingHooksTree ==
  Memdir(DirPath,
    <<NewWriteHookFile(Memfile(LeafPath(1), "foo", FALSE), "fail", <<LeafPath(3)>>),
      NewWriteHookFile(Memfile(LeafPath(2), "bar", FALSE), "same", <<LeafPath(3)>>),
      Memfile(LeafPath(3), "baz", FALSE)>>)

FairTrees ==
  {TestWriteHooksTree, TestWriteHooksRollbackTree, DelayedHookTree, FailingHookTree,
   TwoWaitingHooksTree}

\* the trees with a dependency cycle: in a directory /a of n leaves the
\* leaves i and j are hooks that require each other's path, the first of
\* them possibly a third leaf's path before it.  Leaf t, if t is not 0, is
\* a third hook that requires nothing or one other leaf's path; every other
\* leaf is a plain file, whose reader may fail when the tree has no third
\* hook
MinCycleLeaves == 2
CycleCallbacks == {"same", "fail"}

CycleReqs(i, j, n) ==
  {<<LeafPath(j)>>} \cup {<<LeafPath(k), LeafPath(j)>> : k \in (1..n) \ {i, j}}

OtherReqs(s, n) == {<<>>} \cup {<<LeafPath(m)>> : m \in (1..n) \ {s}}

CycleChoices(s, i, j, t, n) ==
  LET file == Memfile(LeafPath(s), LeafData[s], FALSE)
  IN IF s = i THEN {NewWriteHookFile(file, "same", r) : r \in CycleReqs(i, j, n)}
     ELSE IF s = j THEN {NewWriteHookFile(file, "fail", <<LeafPath(i)>>)}
     ELSE IF s = t THEN {NewWriteHookFile(file, c, r) :
                           c \in CycleCallbacks, r \in OtherReqs(s, n)}
     ELSE IF t = 0 THEN {file, Memfile(LeafPath(s), LeafData[s], TRUE)}
     ELSE {file}

RECURSIVE CycleLinkSeqs(_, _, _, _, _)
CycleLinkSeqs(s, i, j, t, n) ==
  IF s > n THEN {<<>>}
  ELSE {<<c>> \o rest : c \in CycleChoices(s, i, j, t, n),
                        rest \in CycleLinkSeqs(s + 1, i, j, t, n)}

CycleShapes ==
  {x \in (1..MaxLeaves) \X (1..MaxLeaves) \X (0..MaxLeaves) \X (MinCycleLeaves..MaxLeaves) :
     /\ x[1] < x[2] /\ x[2] <= x[4]
     /\ x[3] <= x[4] /\ x[3] \notin {x[1], x[2]}}

CycleTrees ==
  UNION {{Memdir(DirPath, links) : links \in CycleLinkSeqs(1, x[1], x[2], x[3], x[4])} :
           x \in CycleShapes}

\* calls on the trees with a cycle, and on the tree of TestWriteHooks, which
\* has none
CycleInit ==
  /\ CallInit(CycleTrees \cup {TestWriteHooksTree}, {NoFiles})
  /\ MuxIdle /\ MemIdle /\ TrackIdle

CycleSpec == CycleInit /\ [][Next]_vars /\ Fairness

FairInit == CallInit(FairTrees, {NoFiles}) /\ MuxIdle /\ MemIdle /\ TrackIdle

FairSpec == FairInit /\ [][Next]_vars /\ Fairness

MuxInit == CallInit({TestWriteHooksTree}, {NoFiles}) /\ MuxIdle /\ MemIdle /\ TrackIdle

\* one mux, every configuration and every path kind
MuxNext ==
  \/ \E m \in {"A"}, cfgs \in CfgSeqs : NewCall(m, cfgs)
  \/ \E m \in {"A"}, o \in ProbeOutcomes : NewConfigure(m, o)
  \/ \E m \in {"A"} : NewRegister(m)
  \/ \E m \in {"A"} : NewReturn(m)
  \/ \E m \in {"A"}, o \in ProbeOutcomes : BuildBackend(m, o)
  \/ \E f \in {"A", Spare("A")}, o \in OpenOutcomes : CtorOpen(f, o)
  \/ \E m \in {"A"}, t \in KnownFSTypes : SetFilesystem(m, t)
  \/ \E m \in {"A"} : WaiterWaitReturns(m)
  \/ \E m \in {"A"} : WaiterClose(m)
  \/ \E m \in {"A"} : WatcherReceive(m)
  \/ \E m \in {"A"} : WatcherRecord(m)
  \/ \E m \in {"A"} : WatcherDone(m)
  \/ \E m \in {"A"} : CancelScope(m)
  \/ \E m \in {"A", Spare("A")} : FstCtxDone(m)
  \/ \E m \in {"A", Spare("A")}, o \in IOOutcomes : FstRepoClose(m, o)
  \/ \E m \in {"A", Spare("A")}, o \in IOOutcomes : FstProbe(m, o)
  \/ \E m \in {"A", Spare("A")} : FstSleep(m)
  \/ \E m \in {"A", Spare("A")} : FstCloseDone(m)
  \/ \E m \in {"A"}, path \in PutPaths, o \in IOOutcomes : Put(m, path, o)

MuxSpec == MuxInit /\ [][MuxNext]_vars

\* the cfgs of the muxes that share one repo path
RepoCfgSeqs ==
  {<<>>, <<IPFSFilestoreType>>}

\* two muxes over one repo path
RepoNext ==
  \/ \E m \in Muxes, cfgs \in RepoCfgSeqs : NewCall(m, cfgs)
  \/ \E m \in Muxes, o \in ProbeOutcomes : NewConfigure(m, o)
  \/ \E m \in Muxes : NewRegister(m)
  \/ \E m \in Muxes : NewReturn(m)
  \/ \E m \in Muxes, o \in ProbeOutcomes : BuildBackend(m, o)
  \/ \E f \in Fsts, o \in OpenOutcomes : CtorOpen(f, o)
  \/ \E m \in Muxes : SetFilesystem(m, IPFSFilestoreType)
  \/ \E m \in Muxes : WaiterWaitReturns(m)
  \/ \E m \in Muxes : WaiterClose(m)
  \/ \E m \in Muxes : WatcherReceive(m)
  \/ \E m \in Muxes : WatcherRecord(m)
  \/ \E m \in Muxes : WatcherDone(m)
  \/ \E m \in Muxes : CancelScope(m)
  \/ \E m \in Fsts : FstCtxDone(m)
  \/ \E m \in Fsts, o \in IOOutcomes : FstRepoClose(m, o)
  \/ \E m \in Fsts, o \in IOOutcomes : FstProbe(m, o)
  \/ \E m \in Fsts : FstSleep(m)
  \/ \E m \in Fsts : FstCloseDone(m)

RepoSpec == MuxInit /\ [][RepoNext]_vars

\* the Go scheduler runs every goroutine that can take a step
RepoFairness ==
  /\ \A m \in Muxes :
       /\ WF_vars(WaiterWaitReturns(m))
       /\ WF_vars(WaiterClose(m))
       /\ WF_vars(WatcherReceive(m))
       /\ WF_vars(WatcherRecord(m))
       /\ WF_vars(WatcherDone(m))
  /\ \A m \in Fsts :
       /\ WF_vars(FstCtxDone(m))
       /\ WF_vars(FstSleep(m))
       /\ WF_vars(FstCloseDone(m))
       /\ WF_vars(\E o \in IOOutcomes : FstRepoClose(m, o))
       /\ WF_vars(\E o \in IOOutcomes : FstProbe(m, o))

RepoFairSpec == RepoSpec /\ RepoFairness

\* one mux: its construction, late registrations, and calls on every path kind
RouteNext ==
  \/ \E cfgs \in CfgSeqs : NewCall("A", cfgs)
  \/ \E o \in ProbeOutcomes : NewConfigure("A", o)
  \/ NewRegister("A")
  \/ NewReturn("A")
  \/ \E o \in ProbeOutcomes : BuildBackend("A", o)
  \/ \E f \in {"A", Spare("A")}, o \in OpenOutcomes : CtorOpen(f, o)
  \/ \E t \in KnownFSTypes : SetFilesystem("A", t)
  \/ \E op \in MuxOps, path \in PutPaths, o \in CallOutcomes : MuxCall("A", op, path, o)

RouteSpec == MuxInit /\ [][RouteNext]_vars

\* NewMemdir("/a/b", NewMemfileBytes("c.txt", "foo")): a directory whose own
\* path has two segments
NestedPathTree ==
  NewMemdir(<<"", "a", "b">>, <<Memfile(<<"c.txt">>, "foo", FALSE)>>)

\* the trees walked: those put into the store, and the trees of the tests
WalkTrees ==
  PutTrees \cup {OneFile, TestWriteHooksTree, NestedPathTree}

\* walks of file trees
WalkNext ==
  \E t \in WalkTrees :
    \E bad \in {b \in SUBSET Positions(t) : Cardinality(b) <= MaxBad} : WalkCall(t, bad)

WalkSpec == MuxInit /\ [][WalkNext]_vars

\* two tasks that call the store operations of one MemFS side by side
LockNext ==
  \E t \in Tasks :
    \/ \E op \in StoreOps : TaskCall(t, op)
    \/ TaskLock(t)
    \/ TaskMapBegin(t)
    \/ TaskMapEnd(t)
    \/ TaskUnlock(t)

LockSpec == MuxInit /\ [][LockNext]_vars

\* the store operations of one MemFS, in every order
MemNext ==
  \/ \E f \in PutInputs : MemPut(f)
  \/ \E key \in AtKeys, f \in AtKeyFiles : MemPutFileAtKey(key, f)
  \/ MemPutWrite
  \/ \E data \in BlockData : MemPutBlock(data)
  \/ \E f \in BlockFiles : MemPutFile(f)
  \/ \E links \in NodeLinks : MemPutNode(links)
  \/ \E key \in MemKeys : MemGet(key)
  \/ \E key \in MemKeys : MemHas(key)
  \/ \E key \in MemKeys : MemDelete(key)

MemSpec == MuxInit /\ [][MemNext]_vars

\* two adder sessions on one MemFS
AdderNext ==
  \E s \in Sessions :
    \/ \E f \in AdderFiles : SessAddFile(s, f)
    \/ SessSend(s)
    \/ SessFinalize(s)
    \/ SessFinalizeRoot(s)

AdderSpec == MuxInit /\ [][AdderNext]_vars

\* one Mux and the releasing backends it tracks
TrackSpec == MuxInit /\ [][TrackNext]_vars

(***************************************************************************)
(* Properties of WriteWithHooks.                                           *)
(***************************************************************************)
Returned == pcC = "returned"
ReturnedError == Returned /\ retErr # Nil
ReturnedSuccess == Returned /\ retErr = Nil

\* C1: once WriteWithHooks has returned an error, ObjectCount() equals
\* ObjectCount() immediately before the call.
C1_RollbackRestoresObjectCount ==
  ReturnedError => ObjectCount(Files) = countBefore

\* C2: the callback of each hook-wrapped file is invoked at most once in a
\* run, also when CallAndAdd is called on it again by a scan of waitingHooks.
C2_HookCalledAtMostOnce ==
  \A p \in HookPaths : calls[p] <= 1

\* C2 witness: CallAndAdd was called a second time on a hook that had fired
C2_Witness ==
  \E p \in HookPaths : attempts[p] >= 2 /\ calls[p] = 1

WritesOf(path) == {i \in 1..Len(writes) : writes[i].path = path}

\* C3: when WriteWithHooks returns success, every leaf was written through
\* the adder exactly once (a plain leaf with its bytes, a hook with the
\* callback's output), every callback ran exactly once, and every required
\* path of a hook was in merkelizedPaths when its callback ran.
C3_SuccessWritesEveryLeafOnce ==
  ReturnedSuccess =>
    /\ \A f \in LeafSet :
         /\ Cardinality(WritesOf(f.path)) = 1
         /\ \A i \in WritesOf(f.path) :
              writes[i].data =
                IF f.kind = "hook"
                THEN callback(f, Files, saw[f.path]).file.data
                ELSE f.data
    /\ \A h \in Hooks :
         /\ calls[h.path] = 1
         /\ \A i \in 1..Len(h.req) : h.req[i] \in DOMAIN saw[h.path]

\* C3 witness: a successful return of a run in which a hook waited for a
\* later file and a second hook was called on its visit
C3_Witness ==
  /\ ReturnedSuccess
  /\ Cardinality(Hooks) = 2
  /\ \E h \in Hooks : attempts[h.path] >= 2

\* C4: for the tree of TestWriteHooks the call succeeds under every
\* interleaving, and c.txt's callback sees merkelizedPaths["/a/b.txt"] equal to
\* the store path of b.txt's rewritten content.
C4_ChainedWaitingHooksSucceed ==
  (root = TestWriteHooksTree /\ Returned) =>
    /\ ReturnedSuccess
    /\ LeafPath(1) \in DOMAIN saw[LeafPath(2)]
    /\ saw[LeafPath(2)][LeafPath(1)] = MemPath(hashBytes("APPLESbaz"))

\* C5: if a waiting hook has a required path absent from merkelizedPaths when
\* the walk has completed, the call returns an error naming exactly the missing
\* required paths of that hook, that hook's callback is never invoked, and
\* rollback runs.
C5_UnmetRequirementsReported ==
  (Returned /\ unmetAtWalkEnd # {}) =>
    \E u \in unmetAtWalkEnd :
      /\ retErr = ErrMissing(u.hook, u.missed)
      /\ calls[u.hook] = 0
      /\ rbStart \subseteq rbSeen

\* C6: if the scope is cancelled while the call is in progress, the call
\* returns the cancellation error.
C6_CancelReturnsCancellationError ==
  (Returned /\ cancelled) => retErr = ErrCanceled

(***************************************************************************)
(* Properties of the Mux and its releasing backend.                        *)
(***************************************************************************)
\* the releasing backends a mux tracks
Tracked(m) == HandlerTypes(m) \cap ReleasingTypes

\* C7: a Mux's done channel is closed only after the done channel of every
\* releasing backend registered with SetFilesystem has fired, also for a
\* backend registered after New has returned.
C7_MuxDoneAfterEveryBackendDone ==
  \A m \in Muxes : muxDoneCh[m] => (Tracked(m) # {} => FstDone(m))

\* C8: after the Mux's done channel has fired, every Put through the Mux
\* returns an error, for every path kind and every configured backend.
C8_PutFailsAfterDone ==
  (lastPut # NoPut /\ lastPut.done) => lastPut.err # Nil

\* C9: after the scope bound to a Mux is cancelled, the Mux's done channel
\* eventually fires, given that every tracked releasing backend eventually
\* closes its own done channel after the cancellation.
C9_MuxDoneEventuallyFires ==
  \A m \in Muxes :
    [](ctxDone[m] /\ Tracked(m) # {} => <>FstDone(m))
      => []((ctxDone[m] /\ mpc[m] = "live") => <>muxDoneCh[m])

\* C9 witness: a cancelled mux whose backend closed its done channel, whose
\* watcher released doneWg and whose own done channel is closed
C9_Witness ==
  \E m \in Muxes :
    /\ ctxDone[m]
    /\ Tracked(m) # {}
    /\ FstDone(m)
    /\ watcher[m] = "exit"
    /\ muxDoneCh[m]

\* C10: a releasing backend closes its done channel only after it has closed
\* its repo and observed the repo lock free; a mux constructed over the same
\* repo path after another mux's done channel has fired opens the repo without
\* the repo-locked error; and no two backends hold the repo lock at once.
C10_DoneOnlyAfterRepoReleased ==
  /\ \A m \in Muxes :
       FstDone(m) => closeCalled[m] /\ repoClosed[m] /\ probe[m] = "free"
  /\ \A m \in Muxes : handedOver[m] => newErr[m] # errRepoLock
  /\ Cardinality(repoLock) <= 1

\* C11: while the scope bound to a Mux is not cancelled, the Mux's done
\* channel is not closed, for every backend configuration, also one with no
\* releasing backend.
C11_MuxDoneOnlyAfterCancel ==
  \A m \in Muxes : muxDoneCh[m] => ctxDone[m]

(***************************************************************************)
(* MemFS round trips and error contract.                                   *)
(***************************************************************************)
\* the last operation is a Get of the path the last Put returned, and no
\* Delete or PutFileAtKey was called in between
GotLastPut ==
  /\ mOp.op = "Get"
  /\ mPut.todo = <<>>
  /\ mPut.fresh
  /\ mPut.err = Nil
  /\ mOp.key = mPut.path

\* C12: Get of the path that Put returned for a byte file gives a file that is
\* not a directory and holds the bytes that were put, and every path Put
\* returns begins with /mem/.
C12_GetPutReturnsBytes ==
  /\ (GotLastPut /\ ~IsDirectory(mPut.file)) =>
       /\ mOp.err = Nil
       /\ ~IsDirectory(mOp.out)
       /\ mOp.out.data = mPut.file.data
  /\ mOp.op = "Put" =>
       /\ Len(mOp.path) >= 3
       /\ mOp.path[1] = ""
       /\ mOp.path[2] = MemFilestoreType

C12_Witness ==
  /\ GotLastPut
  /\ mPut.file = ManifestFile
  /\ mOp.err = Nil
  /\ mOp.out.data = ManifestFile.data

\* the {fullPath, bytes} pairs a post-order walk of a tree yields
Pairs(t) ==
  {[path |-> WalkList(t)[i].path, bytes |-> WalkList(t)[i].data] :
     i \in 1..Len(WalkList(t))}

\* C13: Get of the path that Put returned for a directory tree gives a
\* directory whose post-order walk yields the {fullPath, bytes} pairs of the
\* tree that was put, no more and no fewer, also for nested directories.
C13_GetPutReturnsSameTree ==
  (GotLastPut /\ IsDirectory(mPut.file)) =>
    /\ mOp.err = Nil
    /\ IsDirectory(mOp.out)
    /\ Pairs(mOp.out) = Pairs(mPut.file)

\* the child names the last Get followed below the path the last Put returned
NamesBelowPut == SubSeq(mOp.key, Len(mPut.path) + 1, Len(mOp.key))

\* the last operation is a Get of a descendant of the directory the last Put
\* stored, and no Delete or PutFileAtKey was called in between
GotBelowLastPut ==
  /\ mOp.op = "Get"
  /\ mPut.todo = <<>>
  /\ mPut.fresh
  /\ mPut.err = Nil
  /\ IsDirectory(mPut.file)
  /\ Len(mOp.key) > Len(mPut.path)
  /\ SubSeq(mOp.key, 1, Len(mPut.path)) = mPut.path
  /\ NamesBelowPut \in DescNames(mPut.file)

\* C14: after Put of a directory tree returned r, Get of r followed by the
\* child names that lead to a descendant returns that descendant: a byte file
\* with the descendant's bytes, or a directory with the descendant's content.
C14_GetResolvesDescendants ==
  GotBelowLastPut =>
    LET d == Descendant(mPut.file, NamesBelowPut)
    IN /\ mOp.err = Nil
       /\ IsDirectory(mOp.out) = IsDirectory(d)
       /\ IF IsDirectory(d)
          THEN Pairs(mOp.out) = Pairs(d)
          ELSE mOp.out.data = d.data

\* what a path lacks in a store: its head digest, a child name in a
\* directory entry on the way, the entry a child name maps to, a directory
\* where a byte entry is met with names left, or nothing
RECURSIVE NamesFault(_, _, _)
NamesFault(files, e, names) ==
  IF names = <<>> THEN "none"
  ELSE IF ~e.isDir THEN "below byte entry"
  ELSE IF Head(names) \notin DOMAIN e.files THEN "name missing"
  ELSE IF e.files[Head(names)] \notin DOMAIN files THEN "entry missing"
  ELSE NamesFault(files, files[e.files[Head(names)]], Tail(names))

PathFault(files, key) ==
  LET parts == TrimMemPrefix(key)
  IN IF parts[1] \notin DOMAIN files THEN "head missing"
     ELSE NamesFault(files, files[parts[1]], Tail(parts))

\* C18: Has never returns an error; it returns false for a path that is not
\* stored, true for a path that a Put returned and no Delete was called on
\* since, and false for a path right after Delete removed it.
C18_HasReportsStoredPaths ==
  /\ mOp.op = "Has" =>
       /\ mOp.err = Nil
       /\ PathFault(mFiles, mOp.key) # "none" => ~mOp.exists
       /\ mOp.key \in mHeld => mOp.exists
  /\ (mOp.op = "Delete" /\ mOp.err = Nil) => ~Has(mFiles, mOp.key).exists

\* C19: Delete of a root path whose key is not in the store succeeds and
\* leaves the store as it was; Delete of a path with child names after the
\* digest returns an error and leaves the store as it was.
C19_DeleteAbsentOrNested ==
  mOp.op = "Delete" =>
    LET parts == TrimMemPrefix(mOp.key)
    IN /\ (Len(parts) = 1 /\ parts[1] \notin DOMAIN mOp.before) =>
            (mOp.err = Nil /\ mFiles = mOp.before)
       /\ Len(parts) > 1 =>
            (mOp.err = ErrDeleteNested /\ mFiles = mOp.before)

\* Delete was called with child names below a digest that is in the store
C19_Witness ==
  /\ mOp.op = "Delete"
  /\ Len(TrimMemPrefix(mOp.key)) > 1
  /\ TrimMemPrefix(mOp.key)[1] \in DOMAIN mOp.before
  /\ mOp.err = ErrDeleteNested
  /\ mFiles = mOp.before

\* C20: Get returns the not-found error when the head digest or a child name
\* on the path is missing, the not-a-directory error when a name is asked for
\* below a byte entry, and leaves the store as it was.
C20_GetErrors ==
  mOp.op = "Get" =>
    /\ PathFault(mOp.before, mOp.key) \in {"head missing", "name missing"} =>
         mOp.err = ErrNotFound
    /\ PathFault(mOp.before, mOp.key) = "below byte entry" =>
         mOp.err = ErrNotDirectory
    /\ mOp.err # Nil => mFiles = mOp.before

(***************************************************************************)
(* The adder.                                                              *)
(***************************************************************************)
\* the files of a sequence, as a set
FileSet(added) == {added[i] : i \in 1..Len(added)}

\* two sessions received the same set of files, one file per full path
SameFiles(a, b) ==
  /\ FileSet(a) = FileSet(b)
  /\ Len(a) = Len(b)
  /\ Cardinality({f.path : f \in FileSet(a)}) = Len(a)

\* C15: two adder sessions that received the same set of files (same full
\* paths, same bytes) through AddFile, in whatever order, get the same root
\* path from Finalize.
C15_RootIndependentOfOrder ==
  (/\ Finalized(1)
   /\ Finalized(2)
   /\ SameFiles(sess[1].added, sess[2].added))
    => sess[1].root = sess[2].root

\* the byte files a session added that no later AddFile of the session
\* replaced
LastAdded(s) ==
  {sess[s].added[i] : i \in
     {i \in 1..Len(sess[s].added) :
        /\ ~IsDirectory(sess[s].added[i])
        /\ \A j \in (i + 1)..Len(sess[s].added) :
             sess[s].added[j].path # sess[s].added[i].path}}

\* C16: after Finalize every internal node of the adder's tree has a directory
\* entry in the store: for every byte file added with full path /p1/.../pk,
\* Get of the root path followed by p1/.../pk gives the file's bytes.
C16_FinalizedTreeResolves ==
  \A s \in Sessions :
    Finalized(s) =>
      \A f \in LastAdded(s) :
        \A r \in Get(mFiles, sess[s].root \o TrimSlash(f.path)) :
          /\ r.err = Nil
          /\ ~IsDirectory(r.file)
          /\ r.file.data = f.data

\* C17: the events on an adder's Added() channel correspond one to one to the
\* entries the adder wrote to the store: the i-th AddFile sent one event, with
\* the file's full path as Name and /mem/<digest of the stored entry> as Path,
\* and the adder wrote nothing, the root directory of Finalize included,
\* without an event.
C17_EventPerStoreWrite ==
  \A s \in Sessions :
    sess[s].at = "idle" =>
      /\ Len(sess[s].out) = Len(sess[s].added)
      /\ \A i \in 1..Len(sess[s].out) :
           /\ sess[s].out[i].Name = sess[s].added[i].path
           /\ Len(sess[s].out[i].Path) = 3
           /\ sess[s].out[i].Path[3] \in DOMAIN mFiles
           /\ ~IsDirectory(sess[s].added[i]) =>
                sess[s].out[i].Path = MemPath(hashBytes(sess[s].added[i].data))
      /\ sess[s].writes = Len(sess[s].out)

(***************************************************************************)
(* Mux routing.                                                            *)
(***************************************************************************)
\* C21: Get, Has, Put and Delete of a non-empty path call the handler
\* registered under PathKind(path) and no other; with no handler for that
\* kind they return the "cannot resolve paths of kind" error and call no
\* backend; Get of the empty path returns not-found.
C21_CallsRoutedByPathKind ==
  lastCall # NoCall =>
    LET kind == PathKind(lastCall.path)
        registered == {lastCall.handlers[i] : i \in 1..Len(lastCall.handlers)}
    IN /\ (lastCall.path # <<"">> /\ kind \in registered) =>
            lastCall.called = <<kind>>
       /\ (lastCall.path # <<"">> /\ kind \notin registered) =>
            (lastCall.called = <<>> /\ lastCall.err = noMuxerError)
       /\ (lastCall.op = "Get" /\ lastCall.path = <<"">>) =>
            (lastCall.called = <<>> /\ lastCall.err = ErrNotFound)

\* a Delete of a /mem path went to the mem handler of a mux that also has
\* a local handler
C21_Witness ==
  /\ lastCall.op = "Delete"
  /\ lastCall.path = <<"", "memo", "hello.text">>
  /\ Len(lastCall.handlers) >= 2
  /\ lastCall.handlers[1] = LocalFilestoreType
  /\ lastCall.called = <<MemFilestoreType>>

\* C22: DefaultWriteFS is nil for a Mux without a backend that can add, and
\* otherwise the first such backend in registration order, whatever is
\* registered after it.
C22_DefaultWriteFSIsFirstAdder ==
  \A m \in Muxes :
    LET hs == handlers[m]
        adders == {i \in 1..Len(hs) : hs[i] \in MerkleDagTypes}
    IN DefaultWriteFS(hs, defaultWriteDestination[m]) =
         IF adders = {} THEN ""
         ELSE hs[CHOOSE i \in adders : \A j \in adders : i <= j]

\* a second backend that can add was registered after the first
C22_Witness ==
  /\ Len(handlers["A"]) = 3
  /\ handlers["A"][2] = MemFilestoreType
  /\ handlers["A"][3] = IPFSFilestoreType
  /\ DefaultWriteFS(handlers["A"], defaultWriteDestination["A"]) = MemFilestoreType

(***************************************************************************)
(* Walk.                                                                   *)
(***************************************************************************)
\* position p is a proper ancestor of position q
Above(p, q) == Len(p) < Len(q) /\ SubSeq(q, 1, Len(p)) = p

\* p and q sit below two different links of one directory, p below the
\* earlier link
Before(p, q) ==
  \E k \in 1..Len(p) :
    /\ k <= Len(q)
    /\ SubSeq(p, 1, k - 1) = SubSeq(q, 1, k - 1)
    /\ p[k] < q[k]

\* C23: Walk visits every node of a tree once, in depth-first post-order:
\* descendants before their directory, siblings in NextFile order; the first
\* error visit returns ends the walk and is the error Walk returns.
C23_WalkIsPostOrder ==
  walked # NoWalk =>
    LET v == walked.visited
        seen == {v[i] : i \in 1..Len(v)}
    IN /\ \A i, j \in 1..Len(v) : i # j => v[i] # v[j]
       /\ seen \subseteq Positions(walked.tree)
       /\ \A i, j \in 1..Len(v) :
            (Above(v[j], v[i]) \/ Before(v[i], v[j])) => i < j
       /\ \A q \in seen, p \in Positions(walked.tree) :
            (Above(q, p) \/ Before(p, q)) => p \in seen
       /\ IF seen \cap walked.bad = {}
          THEN walked.err = Nil /\ seen = Positions(walked.tree)
          ELSE /\ v[Len(v)] \in walked.bad
               /\ \A i \in 1..(Len(v) - 1) : v[i] \notin walked.bad
               /\ walked.err = ErrVisit(v[Len(v)])

\* a walk of a nested tree stopped at a failing visit with a later failing
\* node left unvisited
C23_Witness ==
  /\ walked.tree = DirectoryBehaviorTree
  /\ walked.bad = {<<2, 1>>, <<>>}
  /\ walked.visited = <<<<1>>, <<2, 1>>>>
  /\ walked.err = ErrVisit(<<2, 1>>)

\* C24: when WriteWithHooks returns an error, the error is the one the
\* producer sent (a hook callback's error, a store error or the unmet
\* requirements), never the error of a rollback Delete, and every path
\* recorded when rollback began has had its Delete attempted, whether or not
\* earlier Deletes failed.
C24_RollbackKeepsOriginatingError ==
  pcC = "returned" /\ retErr # Nil =>
    /\ retErr.kind # ErrIO.kind
    /\ rbStart \subseteq rbSeen

\* a failed call whose rollback had every one of its two or more Deletes fail
C24_Witness ==
  /\ pcC = "returned"
  /\ retErr # Nil
  /\ Cardinality(rbStart) >= 2
  /\ rbStart \subseteq rbFailed

\* C25: when WriteWithHooks has returned for the tree of TestWriteHooksRollback
\* on an empty MemFS, the error is the hook's error and the store holds
\* exactly 2 objects.
C25_FailedAddKeepsBlocks ==
  /\ root = TestWriteHooksRollbackTree
  /\ countBefore = 0
  /\ pcC = "returned"
  => retErr = ErrHook /\ ObjectCount(Files) = 2

\* C26: a waiting hook that was fired during the walk is no longer in
\* waitingHooks when the walk goes on to the next file, and waitingHooks never
\* holds the same hook twice.
C26_FiredHookLeavesWaitList ==
  /\ pcP = "walk" =>
       \A i \in 1..Len(waitingHooks) : waitingHooks[i].path \notin once
  /\ \A i, j \in 1..Len(waitingHooks) :
       waitingHooks[i].path = waitingHooks[j].path => i = j

\* the hooks a hook waits for, directly
RequiredHooks(h) == {g \in Hooks : \E i \in 1..Len(h.req) : h.req[i] = g.path}

RECURSIVE DependsOn(_, _)
DependsOn(hs, k) ==
  IF k = 0 THEN hs
  ELSE DependsOn(hs \cup UNION {RequiredHooks(g) : g \in hs}, k - 1)

\* every required path is the full path of a leaf, and no hook waits for itself
SatisfiableAcyclic ==
  /\ \A h \in Hooks : \A i \in 1..Len(h.req) : h.req[i] \in {f.path : f \in LeafSet}
  /\ \A h \in Hooks : h \notin DependsOn(RequiredHooks(h), Cardinality(Hooks))

\* C27: for a tree whose hooks require only paths of its leaves, without a
\* cycle, the call eventually returns (unless the runtime has stopped the
\* process on the unsynchronised map access).
C27_CallEventuallyReturns ==
  SatisfiableAcyclic => <>(pcC = "returned" \/ crashed)

\* writes whose event the producer has not received yet
Unacknowledged ==
  Len(pend.event) + Len(adderOut) + (IF pcK \in {"record", "send"} THEN 1 ELSE 0)
    + Len(addedCh)

\* C28: at most one write is unacknowledged, and whenever the producer is
\* about to check a hook's requirements or to write a file, during the walk or
\* in the end-of-walk pass, every earlier write has been recorded by the
\* consumer and its event received by the producer.
C28_OneUnacknowledgedWrite ==
  /\ Unacknowledged <= 1
  /\ pcP = "scan" \/ (pcP = "final" /\ idx <= Len(snap)) => Unacknowledged = 0

\* C29: from the moment the caller has received an error, no step of the call
\* invokes a hook callback, adds a file through the adder or stores an object
\* (rollback only removes objects).
C29_NoWorkAfterError ==
  [][retErr # Nil =>
       /\ calls' = calls
       /\ writes' = writes
       /\ tree' = tree
       /\ DOMAIN Files' \subseteq DOMAIN Files]_vars

\* C30: once WriteWithHooks has returned, with or without an error, the
\* producer goroutine and the consumer goroutine both come to their end
\* (unless the runtime has stopped the process on the unsynchronised map
\* access).
C30_GoroutinesTerminate ==
  pcC = "returned" ~> ((pcP = "exit" /\ pcK = "exit") \/ crashed)

\* C31: the consumer is never at its write of merkelizedPaths while the
\* producer is at a statement that reads the map (HasRequiredPaths, the hook
\* callback, the missed-paths report) or while the caller ranges over it in
\* rollback.
C31_PathsMapNeverShared ==
  ~crashed => ~(pcK = "record" /\ (ProducerReadsPaths \/ pcC = "rollback"))

\* C32: a task reads or writes m.Files only while it holds filesLk, so two
\* tasks are never inside a map access together when one of them writes.
C32_MapAccessUnderLock ==
  /\ \A t \in Tasks : task[t].inMap => filesLk = t
  /\ \A t, u \in Tasks :
       t # u /\ task[t].inMap /\ task[u].inMap =>
         AtStep(t) = "read" /\ AtStep(u) = "read"

\* the digest of a file when a directory hashes the digests of its children,
\* one per line, in lexicographic order of the children's names
RECURSIVE LexDigest(_)
LexDigest(f) ==
  IF ~IsDirectory(f) THEN hashBytes(f.data)
  ELSE LET names == SortNames([i \in 1..Len(f.children) |-> FileName(f.children[i])])
           child(n) ==
             f.children[CHOOSE j \in 1..Len(f.children) : FileName(f.children[j]) = n]
           RECURSIVE Lines(_)
           Lines(ns) ==
             IF ns = <<>> THEN ""
             ELSE LexDigest(child(Head(ns))) \o "\n" \o Lines(Tail(ns))
       IN hashBytes(Lines(names))

\* C33: a directory that Put has stored is keyed by the hash of its child
\* digests, one per line, in lexicographic child-name order, whatever the
\* order in which NextFile supplied the children.
C33_DirectoryDigestInNameOrder ==
  mOp.op = "Put" /\ mOp.err = Nil /\ IsDirectory(mOp.file) =>
    mOp.path = MemPath(LexDigest(mOp.file))

\* every link of d, and of every directory below d, has the full path of its
\* directory joined with its own file name
RECURSIVE ChildPathsJoined(_)
ChildPathsJoined(d) ==
  \A i \in 1..Len(d.children) :
    /\ d.children[i].path = JoinPath(d.path, FileName(d.children[i]))
    /\ IsDirectory(d.children[i]) => ChildPathsJoined(d.children[i])

\* C34: in a tree built with NewMemdir or AddChildren, every child that
\* NextFile returns on a directory has FullPath equal to the directory's
\* FullPath joined with the child's FileName.
C34_ChildPathIsParentJoinName ==
  walked # NoWalk /\ IsDirectory(walked.tree) => ChildPathsJoined(walked.tree)

\* two hooks of the tree require each other's paths
MutualCycle ==
  \E h, g \in Hooks :
    /\ h # g
    /\ \E i \in 1..Len(h.req) : h.req[i] = g.path
    /\ \E i \in 1..Len(g.req) : g.req[i] = h.path

\* the two hooks of the tree that require each other's paths, first in the
\* walk first
CycleHooks ==
  {i \in 1..Len(Leaves) :
     /\ Leaves[i].kind = "hook"
     /\ \E j \in 1..Len(Leaves) :
          /\ j # i
          /\ Leaves[j].kind = "hook"
          /\ \E k \in 1..Len(Leaves[i].req) : Leaves[i].req[k] = Leaves[j].path
          /\ \E k \in 1..Len(Leaves[j].req) : Leaves[j].req[k] = Leaves[i].path}

FirstCycleHook == Leaves[CHOOSE i \in CycleHooks : \A j \in CycleHooks : i <= j]

\* the hooks of the tree are the two of the cycle and no other
OnlyCycleHooks == MutualCycle /\ Cardinality(Hooks) = 2

\* the required paths of h that are not the path of a plain file of the tree
Unwritten(h) ==
  SelectSeq(h.req, LAMBDA p : \A f \in LeafSet : f.kind = "file" => f.path # p)

\* a plain file of the tree has a reader that fails
UnreadableLeaf == \E f \in LeafSet : f.kind = "file" /\ f.readErr

\* C35 as stated: with two hooks that require each other's paths the call
\* never returns.
C35_CycleNeverReturns == MutualCycle => ~Returned

\* what holds of every state of a call on a tree with a cycle: no callback of
\* a hook of the cycle has been invoked; a call that has returned has not
\* returned success; and when the tree has no hook besides the two, it has
\* returned the error of the file that could not be written if there is one,
\* and otherwise the unmet-requirements error of the hook of the cycle that
\* comes first in the walk, naming those of its required paths that no plain
\* file of the tree has
CycleDetected ==
  MutualCycle =>
    /\ \A i \in CycleHooks : calls[Leaves[i].path] = 0
    /\ Returned => retErr # Nil /\ rbStart \subseteq rbSeen
    /\ Returned /\ OnlyCycleHooks =>
         retErr = IF UnreadableLeaf THEN Err("error putting file in mapstore")
                  ELSE ErrMissing(FirstCycleHook.path, Unwritten(FirstCycleHook))

\* C35 amended: with two hooks that require each other's paths, neither
\* hook's callback is ever invoked and the call never returns success; when
\* the tree has no other hook the call does return, after rollback, with the
\* unmet-requirements error of the hook that comes first in the walk, naming
\* its required paths that no file of the tree has written, or with the
\* walk's error when a file of the tree could not be written.
C35_CycleReturnsUnmetRequirements ==
  /\ []CycleDetected
  /\ (OnlyCycleHooks ~> Returned)

\* a call on a tree of a plain file and the two hooks of a cycle, the first
\* of which also requires the plain file, that has returned after rollback
\* the unmet-requirements error naming the one path that was never written
C35_Witness ==
  /\ OnlyCycleHooks
  /\ Returned
  /\ retErr = ErrMissing(FirstCycleHook.path, Unwritten(FirstCycleHook))
  /\ Len(retErr.missed) = 1
  /\ Len(FirstCycleHook.req) = 2
  /\ rbStart # {}
  /\ rbStart \subseteq rbSeen

\* C36: Delete of a root path returns nil and removes the entry keyed by that
\* digest and no other: every other entry, the entries of a deleted
\* directory's children among them, is as it was, and ObjectCount is one less
\* when the key was present.
C36_DeleteRemovesOneEntry ==
  mOp.op = "Delete" /\ Len(TrimMemPrefix(mOp.key)) = 1 =>
    LET h == TrimMemPrefix(mOp.key)[1]
    IN /\ mOp.err = Nil
       /\ DOMAIN mFiles = DOMAIN mOp.before \ {h}
       /\ \A k \in DOMAIN mFiles : mFiles[k] = mOp.before[k]
       /\ h \in DOMAIN mOp.before =>
            ObjectCount(mFiles) = ObjectCount(mOp.before) - 1

\* a stored directory has been deleted and the entry of one of its children
\* is still in the store
C36_Witness ==
  /\ mOp.op = "Delete"
  /\ Len(TrimMemPrefix(mOp.key)) = 1
  /\ LET h == TrimMemPrefix(mOp.key)[1]
     IN /\ h \in DOMAIN mOp.before
        /\ h \notin DOMAIN mFiles
        /\ mOp.before[h].isDir
        /\ \E n \in DOMAIN mOp.before[h].files : mOp.before[h].files[n] \in DOMAIN mFiles

\* the orders in which the names of a child map can be listed
RECURSIVE NameOrders(_)
NameOrders(S) ==
  IF S = {} THEN {<<>>}
  ELSE UNION {{<<x>> \o p : p \in NameOrders(S \ {x})} : x \in S}

RECURSIVE DigestLines(_, _)
DigestLines(dirfiles, names) ==
  IF names = <<>> THEN ""
  ELSE dirfiles[Head(names)] \o "\n" \o DigestLines(dirfiles, Tail(names))

\* every byte entry is keyed by the digest of its bytes, every directory
\* entry by the digest of the "<hash>\n" lines of its child map
KeyedByContent(files) ==
  \A k \in DOMAIN files :
    IF files[k].isDir
    THEN \E names \in NameOrders(DOMAIN files[k].files) :
           k = hashBytes(DigestLines(files[k].files, names))
    ELSE k = hashBytes(files[k].data)

\* C37: the store is keyed by content after every operation, and a Put of
\* bytes the store already holds returns the path of their digest and leaves
\* ObjectCount as it was.
C37_StoreKeyedByContent ==
  /\ KeyedByContent(mFiles)
  /\ (/\ mOp.op = "Put"
      /\ mOp.err = Nil
      /\ ~IsDirectory(mOp.file)
      /\ hashBytes(mOp.file.data) \in DOMAIN mOp.before) =>
       /\ mOp.path = MemPath(hashBytes(mOp.file.data))
       /\ ObjectCount(mFiles) = ObjectCount(mOp.before)

\* session s received what a WriteWithHooks call hands to its adder: the
\* leaves of a tree, each path once, no directory, and then Finalize
LeavesThenFinalize(s) ==
  /\ Finalized(s)
  /\ sess[s].added # <<>>
  /\ \A i \in 1..Len(sess[s].added) :
       /\ ~IsDirectory(sess[s].added[i])
       /\ \A j \in 1..Len(sess[s].added) :
            sess[s].added[i].path = sess[s].added[j].path => i = j

\* C38: two sessions that wrote the leaves of trees with the same paths and
\* different bytes in at least one leaf get different root paths.
C38_RootPathDependsOnContent ==
  (/\ LeavesThenFinalize(1)
   /\ LeavesThenFinalize(2)
   /\ Len(sess[1].added) = Len(sess[2].added)
   /\ \A i \in 1..Len(sess[1].added) : sess[1].added[i].path = sess[2].added[i].path
   /\ \E i \in 1..Len(sess[1].added) : sess[1].added[i].data # sess[2].added[i].data)
    => sess[1].root # sess[2].root

\* the watchers of two backends stand at the write of m.doneErr together
ConcurrentDoneErrWrite ==
  \E b1, b2 \in Backends : b1 # b2 /\ relWatcher[b1] = "record" /\ relWatcher[b2] = "record"

\* C39: once the Mux's done channel is closed DoneErr() is non-nil when the
\* DoneErr() of some tracked backend is non-nil, in whatever order the
\* backends released, and no two watchers ever write the Mux's error field
\* at the same time
C39_DoneErrKeepsBackendError ==
  /\ relMuxDone =>
       ((\E b \in Backends : relWatcher[b] # "none" /\ relErr[b] # Nil) => relMuxErr # Nil)
  /\ ~ConcurrentDoneErrWrite

====
